---- MODULE Spec2Model ----
(***************************************************************************)
(* A model of stream_read_xbrl.py: the XBRL fact extractor _xbrl_to_rows   *)
(* (context index, single traversal with priority slots, row assembly)     *)
(* and the archive pipeline stream_read_xbrl_zip built on top of it.       *)
(*                                                                         *)
(* Text is a sequence of one-character strings, so that strip, replace and *)
(* the regular expressions act on characters as they do in the source.     *)
(* A value is a record whose single field names its Python type:           *)
(* [dec |-> n] for Decimal, [str |-> s], [bool |-> b], [date |-> <<y,m,d>>]*)
(* and None.  An operation that raises gives [raise |-> exception name];    *)
(* where its result is a sequence or a dict it gives [ok |-> result].      *)
(***************************************************************************)
EXTENDS Integers, Sequences, FiniteSets, TLC

None == [none |-> TRUE]

Raise(exc) == [raise |-> exc]

\* what an operation that can raise gives when it does not
Ok(v) == [ok |-> v]

IsRaise(r) == "raise" \in DOMAIN r

(***************************************************************************)
(* Characters and text                                                     *)
(***************************************************************************)
Digits == {"0", "1", "2", "3", "4", "5", "6", "7", "8", "9"}

Whitespace == {" ", "\n", "\t"}

DigitVal(c) ==
  CASE c = "0" -> 0 [] c = "1" -> 1 [] c = "2" -> 2 [] c = "3" -> 3
    [] c = "4" -> 4 [] c = "5" -> 5 [] c = "6" -> 6 [] c = "7" -> 7
    [] c = "8" -> 8 [] c = "9" -> 9

AllDigits(s) == \A i \in 1..Len(s) : s[i] \in Digits

RECURSIVE NatVal(_)
NatVal(s) ==
  IF s = << >> THEN 0
  ELSE 10 * NatVal(SubSeq(s, 1, Len(s) - 1)) + DigitVal(s[Len(s)])

RECURSIVE Pow10(_)
Pow10(k) == IF k = 0 THEN 1 ELSE 10 * Pow10(k - 1)

\* str.strip(): leading and trailing whitespace removed
RECURSIVE strip(_)
strip(s) ==
  IF s = << >> THEN s
  ELSE IF s[1] \in Whitespace THEN strip(Tail(s))
  ELSE IF s[Len(s)] \in Whitespace THEN strip(SubSeq(s, 1, Len(s) - 1))
  ELSE s

\* str.replace(old, new) for a one-character old and a text new
RECURSIVE replace(_, _, _)
replace(s, old, new) ==
  IF s = << >> THEN s
  ELSE (IF s[1] = old THEN new ELSE <<s[1]>>) \o replace(Tail(s), old, new)

\* re.sub(r'.*: ', '', line) on one line: the greedy match ends at the last ': '
CutLine(line) ==
  LET ends == {i \in 1..(Len(line) - 1) : line[i] = ":" /\ line[i + 1] = " "}
  IN  IF ends = {} THEN line
      ELSE LET last == CHOOSE i \in ends : \A j \in ends : j <= i
           IN  SubSeq(line, last + 2, Len(line))

\* re.sub(r'.*: ', '', text): '.' does not match a newline, so every line is cut on its own
RECURSIVE SubColon(_)
SubColon(s) ==
  LET nls == {i \in 1..Len(s) : s[i] = "\n"}
  IN  IF nls = {} THEN CutLine(s)
      ELSE LET first == CHOOSE i \in nls : \A j \in nls : i <= j
           IN  CutLine(SubSeq(s, 1, first - 1)) \o <<"\n">>
                 \o SubColon(SubSeq(s, first + 1, Len(s)))

(***************************************************************************)
(* Calendar dates                                                          *)
(***************************************************************************)
IsLeap(y) == (y % 4 = 0 /\ y % 100 # 0) \/ y % 400 = 0

DaysInMonth(y, m) ==
  IF m = 2 THEN (IF IsLeap(y) THEN 29 ELSE 28)
  ELSE IF m \in {4, 6, 9, 11} THEN 30 ELSE 31

ValidDate(y, m, d) == y >= 1 /\ m \in 1..12 /\ d \in 1..DaysInMonth(y, m)

\* tuple comparison of two dates <<y, m, d>>
DateLess(a, b) ==
  \/ a[1] < b[1]
  \/ a[1] = b[1] /\ a[2] < b[2]
  \/ a[1] = b[1] /\ a[2] = b[2] /\ a[3] < b[3]

\* datetime.date.fromisoformat: exactly YYYY-MM-DD naming a calendar day
fromisoformat(s) ==
  IF /\ Len(s) = 10
     /\ s[5] = "-" /\ s[8] = "-"
     /\ AllDigits(SubSeq(s, 1, 4)) /\ AllDigits(SubSeq(s, 6, 7)) /\ AllDigits(SubSeq(s, 9, 10))
     /\ ValidDate(NatVal(SubSeq(s, 1, 4)), NatVal(SubSeq(s, 6, 7)), NatVal(SubSeq(s, 9, 10)))
  THEN [date |-> <<NatVal(SubSeq(s, 1, 4)), NatVal(SubSeq(s, 6, 7)), NatVal(SubSeq(s, 9, 10))>>]
  ELSE Raise("ValueError")

\* _date: dateutil.parser.parse(text).date(), on the two spellings the feed
\* uses (YYYY-MM-DD and YYYYMMDD); text that names no date raises ParserError
_date(text) ==
  IF ~ IsRaise(fromisoformat(text)) THEN fromisoformat(text)
  ELSE IF /\ Len(text) = 8 /\ AllDigits(text)
          /\ ValidDate(NatVal(SubSeq(text, 1, 4)), NatVal(SubSeq(text, 5, 6)), NatVal(SubSeq(text, 7, 8)))
       THEN [date |-> <<NatVal(SubSeq(text, 1, 4)), NatVal(SubSeq(text, 5, 6)), NatVal(SubSeq(text, 7, 8))>>]
       ELSE Raise("ParserError")

(***************************************************************************)
(* Low level value parsers                                                 *)
(***************************************************************************)
_parse_str(element, text) == [str |-> replace(replace(text, "\n", <<" ">>), "\"", << >>)]

\* Decimal(text) on integer numerals: an optional sign and digits; anything
\* else raises decimal.InvalidOperation
DecimalOf(t) ==
  LET body == IF t # << >> /\ t[1] \in {"-", "+"} THEN Tail(t) ELSE t
  IN  IF body # << >> /\ AllDigits(body)
      THEN [dec |-> (IF t[1] = "-" THEN -1 ELSE 1) * NatVal(body)]
      ELSE Raise("InvalidOperation")

_parse_decimal(element, text) ==
  LET sign == IF element.sign = "-" THEN -1 ELSE 1
      d == DecimalOf(replace(text, ",", << >>))
  IN  IF IsRaise(d) THEN d
      ELSE [dec |-> sign * d.dec * Pow10(element.scale)]

_parse_date(element, text) == _date(text)

_parse_bool(element, text) ==
  IF text = <<"f", "a", "l", "s", "e">> THEN [bool |-> FALSE]
  ELSE IF text = <<"t", "r", "u", "e">> THEN [bool |-> TRUE]
  ELSE None

_parse_reversed_bool(element, text) ==
  IF text = <<"t", "r", "u", "e">> THEN [bool |-> FALSE]
  ELSE IF text = <<"f", "a", "l", "s", "e">> THEN [bool |-> TRUE]
  ELSE None

\* the gate of _parse: null, blank and '-' give None without calling the parser
Gate(text) == text # << >> /\ strip(text) \notin {<< >>, <<"-">>}

_parse_decimal_with_colon(element, text) ==
  IF Gate(SubColon(text)) THEN _parse_decimal(element, strip(SubColon(text))) ELSE None

_parse(element, text, parser) ==
  IF Gate(text)
  THEN CASE parser = "_parse_str" -> _parse_str(element, strip(text))
         [] parser = "_parse_decimal" -> _parse_decimal(element, strip(text))
         [] parser = "_parse_decimal_with_colon" -> _parse_decimal_with_colon(element, strip(text))
         [] parser = "_parse_date" -> _parse_date(element, strip(text))
         [] parser = "_parse_bool" -> _parse_bool(element, strip(text))
         [] parser = "_parse_reversed_bool" -> _parse_reversed_bool(element, strip(text))
  ELSE None

(***************************************************************************)
(* The column catalogue and the matcher tables                             *)
(***************************************************************************)
\* a test: its class (_tn, _av, _custom), the name it is keyed by, its search
\* function ("element" is the default lambda returning the element itself)
T(kind, key, searching, parser) ==
  [kind |-> kind, name |-> key, search |-> searching, parser |-> parser]

GENERAL_XPATH_MAPPINGS ==
  <<
    [name |-> "balance_sheet_date", tests |-> <<
        T("av", "BalanceSheetDate", "element", "_parse_date"),
        T("tn", "BalanceSheetDate", "element", "_parse_date") >>],
    [name |-> "companies_house_registered_number", tests |-> <<
        T("av", "UKCompaniesHouseRegisteredNumber", "element", "_parse_str"),
        T("tn", "CompaniesHouseRegisteredNumber", "element", "_parse_str") >>],
    [name |-> "entity_current_legal_name", tests |-> <<
        T("av", "EntityCurrentLegalOrRegisteredName", "element", "_parse_str"),
        T("tn", "EntityCurrentLegalName", "element", "_parse_str"),
        T("custom", "", "first_span", "_parse_str") >>],
    [name |-> "company_dormant", tests |-> <<
        T("av", "EntityDormantTruefalse", "element", "_parse_bool"),
        T("av", "EntityDormant", "element", "_parse_bool"),
        T("tn", "CompanyDormant", "element", "_parse_bool"),
        T("tn", "CompanyNotDormant", "element", "_parse_reversed_bool") >>],
    [name |-> "average_number_employees_during_period", tests |-> <<
        T("av", "AverageNumberEmployeesDuringPeriod", "element", "_parse_decimal_with_colon"),
        T("av", "EmployeesTotal", "element", "_parse_decimal_with_colon"),
        T("tn", "AverageNumberEmployeesDuringPeriod", "element", "_parse_decimal_with_colon"),
        T("tn", "EmployeesTotal", "element", "_parse_decimal_with_colon") >>]
  >>

PERIODICAL_XPATH_MAPPINGS ==
  <<
    [name |-> "tangible_fixed_assets", tests |-> <<
        T("tn", "FixedAssets", "element", "_parse_decimal"),
        T("av", "FixedAssets", "element", "_parse_decimal"),
        T("tn", "TangibleFixedAssets", "element", "_parse_decimal"),
        T("av", "TangibleFixedAssets", "element", "_parse_decimal"),
        T("av", "PropertyPlantEquipment", "element", "_parse_decimal") >>],
    [name |-> "debtors", tests |-> <<
        T("tn", "Debtors", "element", "_parse_decimal"),
        T("av", "Debtors", "element", "_parse_decimal") >>],
    [name |-> "cash_bank_in_hand", tests |-> <<
        T("tn", "CashBankInHand", "element", "_parse_decimal"),
        T("av", "CashBankInHand", "element", "_parse_decimal"),
        T("av", "CashBankOnHand", "element", "_parse_decimal") >>],
    [name |-> "current_assets", tests |-> <<
        T("tn", "CurrentAssets", "element", "_parse_decimal"),
        T("av", "CurrentAssets", "element", "_parse_decimal") >>],
    [name |-> "creditors_due_within_one_year", tests |-> <<
        T("av", "CreditorsDueWithinOneYear", "element", "_parse_decimal"),
        T("av", "Creditors", "within_one_year", "_parse_decimal") >>],
    [name |-> "creditors_due_after_one_year", tests |-> <<
        T("av", "CreditorsDueAfterOneYear", "element", "_parse_decimal"),
        T("custom", "", "after_one_year", "_parse_decimal") >>],
    [name |-> "net_current_assets_liabilities", tests |-> <<
        T("tn", "NetCurrentAssetsLiabilities", "element", "_parse_decimal"),
        T("av", "NetCurrentAssetsLiabilities", "element", "_parse_decimal") >>],
    [name |-> "total_assets_less_current_liabilities", tests |-> <<
        T("tn", "TotalAssetsLessCurrentLiabilities", "element", "_parse_decimal"),
        T("av", "TotalAssetsLessCurrentLiabilities", "element", "_parse_decimal") >>],
    [name |-> "net_assets_liabilities_including_pension_asset_liability", tests |-> <<
        T("tn", "NetAssetsLiabilitiesIncludingPensionAssetLiability", "element", "_parse_decimal"),
        T("av", "NetAssetsLiabilitiesIncludingPensionAssetLiability", "element", "_parse_decimal"),
        T("tn", "NetAssetsLiabilities", "element", "_parse_decimal"),
        T("av", "NetAssetsLiabilities", "element", "_parse_decimal") >>],
    [name |-> "called_up_share_capital", tests |-> <<
        T("tn", "CalledUpShareCapital", "element", "_parse_decimal"),
        T("av", "CalledUpShareCapital", "element", "_parse_decimal"),
        T("custom", "", "share_capital", "_parse_decimal") >>],
    [name |-> "profit_loss_account_reserve", tests |-> <<
        T("tn", "ProfitLossAccountReserve", "element", "_parse_decimal"),
        T("av", "ProfitLossAccountReserve", "element", "_parse_decimal"),
        T("custom", "", "retained_earnings", "_parse_decimal") >>],
    [name |-> "shareholder_funds", tests |-> <<
        T("tn", "ShareholderFunds", "element", "_parse_decimal"),
        T("av", "ShareholderFunds", "element", "_parse_decimal"),
        T("custom", "", "no_segment", "_parse_decimal") >>],
    [name |-> "turnover_gross_operating_revenue", tests |-> <<
        T("tn", "TurnoverGrossOperatingRevenue", "element", "_parse_decimal"),
        T("av", "TurnoverGrossOperatingRevenue", "element", "_parse_decimal"),
        T("tn", "TurnoverRevenue", "element", "_parse_decimal"),
        T("av", "TurnoverRevenue", "element", "_parse_decimal") >>],
    [name |-> "other_operating_income", tests |-> <<
        T("tn", "OtherOperatingIncome", "element", "_parse_decimal"),
        T("av", "OtherOperatingIncome", "element", "_parse_decimal"),
        T("tn", "OtherOperatingIncomeFormat2", "element", "_parse_decimal"),
        T("av", "OtherOperatingIncomeFormat2", "element", "_parse_decimal") >>],
    [name |-> "cost_sales", tests |-> <<
        T("tn", "CostSales", "element", "_parse_decimal"),
        T("av", "CostSales", "element", "_parse_decimal") >>],
    [name |-> "gross_profit_loss", tests |-> <<
        T("tn", "GrossProfitLoss", "element", "_parse_decimal"),
        T("av", "GrossProfitLoss", "element", "_parse_decimal") >>],
    [name |-> "administrative_expenses", tests |-> <<
        T("tn", "AdministrativeExpenses", "element", "_parse_decimal"),
        T("av", "AdministrativeExpenses", "element", "_parse_decimal") >>],
    [name |-> "raw_materials_consumables", tests |-> <<
        T("tn", "RawMaterialsConsumables", "element", "_parse_decimal"),
        T("av", "RawMaterialsConsumables", "element", "_parse_decimal"),
        T("tn", "RawMaterialsConsumablesUsed", "element", "_parse_decimal"),
        T("av", "RawMaterialsConsumablesUsed", "element", "_parse_decimal") >>],
    [name |-> "staff_costs", tests |-> <<
        T("tn", "StaffCosts", "element", "_parse_decimal"),
        T("av", "StaffCosts", "element", "_parse_decimal"),
        T("tn", "StaffCostsEmployeeBenefitsExpense", "element", "_parse_decimal"),
        T("av", "StaffCostsEmployeeBenefitsExpense", "element", "_parse_decimal") >>],
    [name |-> "depreciation_other_amounts_written_off_tangible_intangible_fixed_assets", tests |-> <<
        T("tn", "DepreciationOtherAmountsWrittenOffTangibleIntangibleFixedAssets", "element", "_parse_decimal"),
        T("av", "DepreciationOtherAmountsWrittenOffTangibleIntangibleFixedAssets", "element", "_parse_decimal"),
        T("tn", "DepreciationAmortisationImpairmentExpense", "element", "_parse_decimal"),
        T("av", "DepreciationAmortisationImpairmentExpense", "element", "_parse_decimal") >>],
    [name |-> "other_operating_charges_format2", tests |-> <<
        T("tn", "OtherOperatingChargesFormat2", "element", "_parse_decimal"),
        T("av", "OtherOperatingChargesFormat2", "element", "_parse_decimal"),
        T("tn", "OtherOperatingExpensesFormat2", "element", "_parse_decimal"),
        T("av", "OtherOperatingExpensesFormat2", "element", "_parse_decimal") >>],
    [name |-> "operating_profit_loss", tests |-> <<
        T("tn", "OperatingProfitLoss", "element", "_parse_decimal"),
        T("av", "OperatingProfitLoss", "element", "_parse_decimal") >>],
    [name |-> "profit_loss_on_ordinary_activities_before_tax", tests |-> <<
        T("tn", "ProfitLossOnOrdinaryActivitiesBeforeTax", "element", "_parse_decimal"),
        T("av", "ProfitLossOnOrdinaryActivitiesBeforeTax", "element", "_parse_decimal") >>],
    [name |-> "tax_on_profit_or_loss_on_ordinary_activities", tests |-> <<
        T("tn", "TaxOnProfitOrLossOnOrdinaryActivities", "element", "_parse_decimal"),
        T("av", "TaxOnProfitOrLossOnOrdinaryActivities", "element", "_parse_decimal"),
        T("tn", "TaxTaxCreditOnProfitOrLossOnOrdinaryActivities", "element", "_parse_decimal"),
        T("av", "TaxTaxCreditOnProfitOrLossOnOrdinaryActivities", "element", "_parse_decimal") >>],
    [name |-> "profit_loss_for_period", tests |-> <<
        T("tn", "ProfitLoss", "element", "_parse_decimal"),
        T("av", "ProfitLoss", "element", "_parse_decimal"),
        T("tn", "ProfitLossForPeriod", "element", "_parse_decimal"),
        T("av", "ProfitLossForPeriod", "element", "_parse_decimal") >>]
  >>

ALL_MAPPINGS == GENERAL_XPATH_MAPPINGS \o PERIODICAL_XPATH_MAPPINGS

GeneralNames == {GENERAL_XPATH_MAPPINGS[i].name : i \in 1..Len(GENERAL_XPATH_MAPPINGS)}

PeriodicNames == {PERIODICAL_XPATH_MAPPINGS[i].name : i \in 1..Len(PERIODICAL_XPATH_MAPPINGS)}

\* (name, priority, test, parser) for every test of every column, in catalogue
\* order; the priority is the test's position in its column's list (enumerate)
RECURSIVE Enumerated(_)
Enumerated(mappings) ==
  IF mappings = << >> THEN << >>
  ELSE [i \in 1..Len(Head(mappings).tests) |->
          [name |-> Head(mappings).name, priority |-> i - 1,
           test |-> Head(mappings).tests[i], parse |-> Head(mappings).tests[i].parser]]
       \o Enumerated(Tail(mappings))

AllTests == Enumerated(ALL_MAPPINGS)

\* { test.name: (name, priority, test, parser) ... if isinstance(test, kind) }:
\* of two tests with one name the later stays
RECURSIVE TableOf(_, _)
TableOf(tests, kind) ==
  IF tests = << >> THEN << >>
  ELSE IF Head(tests).test.kind = kind
       THEN TableOf(Tail(tests), kind) @@ (Head(tests).test.name :> Head(tests))
       ELSE TableOf(Tail(tests), kind)

TAG_NAME_TESTS == TableOf(AllTests, "tn")

ATTRIBUTE_VALUE_TESTS == TableOf(AllTests, "av")

IsCustom(c) == c.test.kind = "custom"

CUSTOM_TESTS == SelectSeq(AllTests, IsCustom)

tag_name_tests(local_name) ==
  IF local_name \in DOMAIN TAG_NAME_TESTS THEN <<TAG_NAME_TESTS[local_name]>> ELSE << >>

attribute_value_tests(attribute_value) ==
  IF attribute_value \in DOMAIN ATTRIBUTE_VALUE_TESTS
  THEN <<ATTRIBUTE_VALUE_TESTS[attribute_value]>> ELSE << >>

\* chain(tag_name_tests(local_name), attribute_value_tests(attribute_value), CUSTOM_TESTS)
Chain(element) ==
  tag_name_tests(element.tag) \o attribute_value_tests(element.name) \o CUSTOM_TESTS

(***************************************************************************)
(* Elements.  An element is                                                *)
(*   [tag, name, contextRef, text, sign, scale, span]                      *)
(* tag is the local name (the tag after '}'), name the name attribute      *)
(* after its last ':' ("" when absent), contextRef the sequence of the     *)
(* words the attribute is spelled from (<< >> when absent or empty; 'x in  *)
(* context_ref' is then membership of the word), text the element's text   *)
(* (<< >> for None), sign and scale the attributes the Decimal parser      *)
(* reads, span the elements ./*[local-name()='span'][1] selects (none or   *)
(* one child).                                                             *)
(***************************************************************************)
Contains(context_ref, word) == \E i \in 1..Len(context_ref) : context_ref[i] = word

\* test.search(element, local_name, attribute_name, context_ref)
search(test, element, local_name, attribute_name, context_ref) ==
  CASE test.search = "element" -> <<element>>
    [] test.search = "first_span" -> element.span
    [] test.search = "within_one_year" ->
         IF Contains(element.contextRef, "WithinOneYear") THEN <<element>> ELSE << >>
    [] test.search = "after_one_year" ->
         IF "Creditors" = local_name /\ Contains(context_ref, "AfterOneYear")
         THEN <<element>> ELSE << >>
    [] test.search = "share_capital" ->
         IF "Equity" = attribute_name /\ Contains(element.contextRef, "ShareCapital")
         THEN <<element>> ELSE << >>
    [] test.search = "retained_earnings" ->
         IF "Equity" = attribute_name
            /\ Contains(element.contextRef, "RetainedEarningsAccumulatedLosses")
         THEN <<element>> ELSE << >>
    [] test.search = "no_segment" ->
         IF "Equity" = attribute_name /\ ~ Contains(context_ref, "segment")
         THEN <<element>> ELSE << >>

(***************************************************************************)
(* The context index                                                       *)
(* A context is [id, period]; period holds the period children that        *)
(* e.xpath("./*[local-name()='period']") selects, each                     *)
(* [instant, startDate, endDate]: the texts of the instant children        *)
(* (<< >> inside for a child without text) and the text nodes of the       *)
(* startDate and endDate children.                                         *)
(***************************************************************************)
_get_dates(context) ==
  IF context.instant # << >>
  THEN (IF context.instant[1] = << >> THEN Raise("AttributeError")
        ELSE Ok(<<strip(context.instant[1]), strip(context.instant[1])>>))
  ELSE IF context.startDate = << >> \/ context.endDate = << >> THEN Raise("IndexError")
  ELSE Ok(<<strip(context.startDate[1]), strip(context.endDate[1])>>)

\* the dict comprehension over the contexts: a later context of the same id
\* overwrites the entry; the first exception ends the extraction
RECURSIVE BuildContextDates(_, _)
BuildContextDates(cs, acc) ==
  IF cs = << >> THEN Ok(acc)
  ELSE IF Head(cs).period = << >> THEN Raise("IndexError")
  ELSE LET dates == _get_dates(Head(cs).period[1])
       IN  IF IsRaise(dates) THEN dates
           ELSE BuildContextDates(Tail(cs),
                  [i \in (DOMAIN acc) \cup {Head(cs).id} |->
                     IF i = Head(cs).id THEN dates.ok ELSE acc[i]])

EmptyDict == [i \in {} |-> << >>]

(***************************************************************************)
(* The slots                                                               *)
(***************************************************************************)
SENTINEL_MAX == 10

Slot(priority, value) == [priority |-> priority, value |-> value]

InitialGeneral == [column \in GeneralNames |-> Slot(SENTINEL_MAX, None)]

\* the defaultdict's factory
InitialPeriodic == [column \in PeriodicNames |-> Slot(SENTINEL_MAX, None)]

\* periodic_attributes_with_priorities is kept as the sequence of its
\* (key, bucket) items in insertion order, the order a dict iterates in
HasKey(per, dates) == \E i \in 1..Len(per) : per[i].key = dates

\* periodic_attributes_with_priorities[dates]: a missing key is inserted
Touch(per, dates) ==
  IF HasKey(per, dates) THEN per ELSE Append(per, [key |-> dates, attrs |-> InitialPeriodic])

Bucket(per, dates) == per[CHOOSE i \in 1..Len(per) : per[i].key = dates].attrs

SetSlot(per, dates, column, slot) ==
  [i \in 1..Len(per) |->
     IF per[i].key = dates THEN [per[i] EXCEPT !.attrs[column] = slot] ELSE per[i]]

(***************************************************************************)
(* The handlers.  Each returns the store after the call, or the exception   *)
(* the call raises.                                                        *)
(***************************************************************************)
RECURSIVE GeneralSearchLoop(_, _, _)
GeneralSearchLoop(general, found, c) ==
  IF found = << >> THEN Ok(general)
  ELSE LET value == _parse(Head(found), Head(found).text, c.parse)
       IN  IF IsRaise(value) THEN value
           ELSE IF value # None
                THEN Ok([general EXCEPT ![c.name] = Slot(c.priority, value)])
                ELSE GeneralSearchLoop(general, Tail(found), c)

\* handle_general with the priority test turned round: a worse candidate
\* replaces a better one
handle_general_keeps_worse(general, element, local_name, attribute_value, context_ref, c) ==
  IF c.priority < general[c.name].priority /\ general[c.name].priority < SENTINEL_MAX
  THEN Ok(general)
  ELSE GeneralSearchLoop(general,
         search(c.test, element, local_name, attribute_value, context_ref), c)

\* handle_general without the test value is not None: what the first element
\* found parses to is stored, null or not
handle_general_stores_null(general, element, local_name, attribute_value, context_ref, c) ==
  LET found == search(c.test, element, local_name, attribute_value, context_ref)
  IN  IF c.priority > general[c.name].priority \/ found = << >> THEN Ok(general)
      ELSE IF IsRaise(_parse(Head(found), Head(found).text, c.parse))
      THEN _parse(Head(found), Head(found).text, c.parse)
      ELSE Ok([general EXCEPT ![c.name] =
                 Slot(c.priority, _parse(Head(found), Head(found).text, c.parse))])

handle_general(general, element, local_name, attribute_value, context_ref, c) ==
  IF c.priority > general[c.name].priority THEN Ok(general)
  ELSE GeneralSearchLoop(general,
         search(c.test, element, local_name, attribute_value, context_ref), c)

RECURSIVE PeriodicSearchLoop(_, _, _, _)
PeriodicSearchLoop(periodic, dates, found, c) ==
  IF found = << >> THEN Ok(periodic)
  ELSE LET touched == Touch(periodic, dates)
           value == _parse(Head(found), Head(found).text, c.parse)
       IN  IF c.priority >= Bucket(touched, dates)[c.name].priority THEN Ok(touched)
           ELSE IF IsRaise(value) THEN value
           ELSE IF value # None
                THEN Ok(SetSlot(touched, dates, c.name, Slot(c.priority, value)))
                ELSE PeriodicSearchLoop(touched, dates, Tail(found), c)

\* the search loop of handle_periodic where a candidate of the slot's own
\* priority is let through
RECURSIVE PeriodicSearchLoopTies(_, _, _, _)
PeriodicSearchLoopTies(periodic, dates, found, c) ==
  IF found = << >> THEN Ok(periodic)
  ELSE LET touched == Touch(periodic, dates)
           value == _parse(Head(found), Head(found).text, c.parse)
       IN  IF c.priority > Bucket(touched, dates)[c.name].priority THEN Ok(touched)
           ELSE IF IsRaise(value) THEN value
           ELSE IF value # None
                THEN Ok(SetSlot(touched, dates, c.name, Slot(c.priority, value)))
                ELSE PeriodicSearchLoopTies(touched, dates, Tail(found), c)

\* handle_periodic with the test of handle_general: priority > best_priority
handle_periodic_overwrites_ties(periodic, dates_of, element, local_name, attribute_value, context_ref, c) ==
  IF context_ref = << >> THEN Ok(periodic)
  ELSE IF context_ref \notin DOMAIN dates_of THEN Raise("KeyError")
  ELSE IF dates_of[context_ref] = << >> THEN Ok(periodic)
  ELSE PeriodicSearchLoopTies(periodic, dates_of[context_ref],
         search(c.test, element, local_name, attribute_value, context_ref), c)

\* handle_periodic where a fact without contextRef is filed under the
\* document's first context instead of being dropped
handle_periodic_default_context(periodic, dates_of, element, local_name, attribute_value, context_ref, c) ==
  LET ref == IF context_ref = << >> /\ DOMAIN dates_of # {}
             THEN CHOOSE id \in DOMAIN dates_of : id = <<"c1">> \/ <<"c1">> \notin DOMAIN dates_of
             ELSE context_ref
  IN  IF ref = << >> THEN Ok(periodic)
      ELSE IF ref \notin DOMAIN dates_of THEN Raise("KeyError")
      ELSE IF dates_of[ref] = << >> THEN Ok(periodic)
      ELSE PeriodicSearchLoop(periodic, dates_of[ref],
             search(c.test, element, local_name, attribute_value, context_ref), c)

\* handle_periodic that leaves no bucket behind for a period none of whose
\* slots holds a value
handle_periodic_no_empty_bucket(periodic, dates_of, element, local_name, attribute_value, context_ref, c) ==
  LET HoldsValue(item) == \E col \in PeriodicNames : item.attrs[col].value # None
      after == IF context_ref = << >> THEN Ok(periodic)
               ELSE IF context_ref \notin DOMAIN dates_of THEN Raise("KeyError")
               ELSE IF dates_of[context_ref] = << >> THEN Ok(periodic)
               ELSE PeriodicSearchLoop(periodic, dates_of[context_ref],
                      search(c.test, element, local_name, attribute_value, context_ref), c)
  IN  IF IsRaise(after) THEN after ELSE Ok(SelectSeq(after.ok, HoldsValue))

handle_periodic(periodic, dates_of, element, local_name, attribute_value, context_ref, c) ==
  IF context_ref = << >> THEN Ok(periodic)
  ELSE IF context_ref \notin DOMAIN dates_of THEN Raise("KeyError")
  ELSE IF dates_of[context_ref] = << >> THEN Ok(periodic)
  ELSE PeriodicSearchLoop(periodic, dates_of[context_ref],
         search(c.test, element, local_name, attribute_value, context_ref), c)

(***************************************************************************)
(* The file name and the core attributes                                   *)
(***************************************************************************)
\* os.path.basename: what follows the last '/'
basename(path) ==
  LET slashes == {i \in 1..Len(path) : path[i] = "/"}
  IN  IF slashes = {} THEN path
      ELSE SubSeq(path, (CHOOSE i \in slashes : \A j \in slashes : j <= i) + 1, Len(path))

IsDigit(ch) == ch \in Digits

NotUnderscore(ch) == ch # "_"

\* \d+ from position i: the end of the longest run of digits that starts
\* at i (i - 1 when there is none)
DigitRunEnd(s, i) ==
  LET ends == {j \in (i - 1)..Len(s) : \A k \in i..j : IsDigit(s[k])}
  IN  CHOOSE j \in ends : \A k \in ends : k <= j

\* [^_]+ from position i: the end of the longest run without '_' that
\* starts at i (i - 1 when there is none)
FieldRunEnd(s, i) ==
  LET ends == {j \in (i - 1)..Len(s) : \A k \in i..j : NotUnderscore(s[k])}
  IN  CHOOSE j \in ends : \A k \in ends : k <= j

At(s, i, word) == i + Len(word) - 1 <= Len(s) /\ SubSeq(s, i, i + Len(word) - 1) = word

\* re.match(r'^(Prod\d+_\d+)_([^_]+)_(\d\d\d\d\d\d\d\d)\.(html|xml)', fn): the
\* groups, or None.  No run can give a character back to what follows it, so
\* each greedy run is matched at its full length; nothing anchors the end.
match(fn) ==
  LET a == DigitRunEnd(fn, 5)
      b == DigitRunEnd(fn, a + 2)
      c == FieldRunEnd(fn, b + 2)
      ext == IF At(fn, c + 11, <<"h", "t", "m", "l">>) THEN <<"h", "t", "m", "l">>
             ELSE IF At(fn, c + 11, <<"x", "m", "l">>) THEN <<"x", "m", "l">>
             ELSE << >>
  IN  IF /\ At(fn, 1, <<"P", "r", "o", "d">>)
         /\ a >= 5 /\ At(fn, a + 1, <<"_">>)
         /\ b >= a + 2 /\ At(fn, b + 1, <<"_">>)
         /\ c >= b + 2 /\ At(fn, c + 1, <<"_">>)
         /\ c + 9 <= Len(fn) /\ AllDigits(SubSeq(fn, c + 2, c + 9))
         /\ At(fn, c + 10, <<".">>)
         /\ ext # << >>
      THEN [run_code |-> SubSeq(fn, 1, b), company_id |-> SubSeq(fn, b + 2, c),
            date |-> SubSeq(fn, c + 2, c + 9), filetype |-> ext]
      ELSE None

allowed_taxonomies ==
  <<"http://www.xbrl.org/uk/fr/gaap/pt/2004-12-01",
    "http://www.xbrl.org/uk/gaap/core/2009-09-01",
    "http://xbrl.frc.org.uk/fr/2014-09-01/core">>

\* ';'.join(items)
RECURSIVE join(_)
join(items) ==
  IF items = << >> THEN ""
  ELSE IF Len(items) = 1 THEN items[1]
  ELSE items[1] \o ";" \o join(Tail(items))

\* the order a set of strings is iterated in is fixed by the process's string
\* hashing: order is that iteration order over the whitelist
taxonomy(declared, iteration) ==
  LET IsDeclared(uri) == uri \in declared
  IN  join(SelectSeq(iteration, IsDeclared))

\* core_attributes, or the exception raised on the way
core_attributes(member, declared, iteration) ==
  LET mo == match(basename(member))
  IN  IF mo = None THEN Raise("AttributeError")
      ELSE IF IsRaise(_date(mo.date)) THEN _date(mo.date)
      ELSE Ok(<<[str |-> mo.run_code], [str |-> mo.company_id], _date(mo.date),
                [str |-> mo.filetype], [uri |-> taxonomy(declared, iteration)]>>)

(***************************************************************************)
(* Row assembly                                                            *)
(***************************************************************************)
general_attributes(general) ==
  [i \in 1..Len(GENERAL_XPATH_MAPPINGS) |-> general[GENERAL_XPATH_MAPPINGS[i].name].value]

\* one item of periods: the two parsed dates and the 25 values, or ValueError
PeriodTuple(item) ==
  LET period_start == fromisoformat(item.key[1])
      period_end == fromisoformat(item.key[2])
  IN  IF IsRaise(period_start) THEN period_start
      ELSE IF IsRaise(period_end) THEN period_end
      ELSE Ok(<<period_start, period_end>>
              \o [i \in 1..Len(PERIODICAL_XPATH_MAPPINGS) |->
                    item.attrs[PERIODICAL_XPATH_MAPPINGS[i].name].value])

\* key=lambda period: (period[0], period[1]), compared as tuples
KeyLess(p, q) ==
  \/ DateLess(p[1].date, q[1].date)
  \/ p[1].date = q[1].date /\ DateLess(p[2].date, q[2].date)

\* sorted(periods, key=..., reverse=True): descending, and stable (items of
\* equal key keep their order)
RECURSIVE InsertDescending(_, _)
InsertDescending(sorted, p) ==
  IF sorted = << >> THEN <<p>>
  ELSE IF KeyLess(Head(sorted), p) THEN <<p>> \o sorted
  ELSE <<Head(sorted)>> \o InsertDescending(Tail(sorted), p)

RECURSIVE SortedDescending(_, _)
SortedDescending(periods, acc) ==
  IF periods = << >> THEN acc
  ELSE SortedDescending(Tail(periods), InsertDescending(acc, Head(periods)))

\* sorted_periods without reverse=True: oldest first
sorted_periods_not_reversed(periods) ==
  LET descending == SortedDescending(periods, << >>)
  IN  [i \in 1..Len(descending) |-> descending[Len(descending) + 1 - i]]

sorted_periods(periods) == SortedDescending(periods, << >>)

NoneTuple(n) == [i \in 1..n |-> None]

\* Rows that emits the row without period for every document, after the
\* rows of its periods
Rows_with_null_row(core_values, general, periodic) ==
  LET periods == [i \in 1..Len(periodic) |-> PeriodTuple(periodic[i])]
      failed == {i \in 1..Len(periods) : IsRaise(periods[i])}
      ordered == sorted_periods([i \in 1..Len(periods) |-> periods[i].ok])
  IN  IF failed # {} THEN periods[CHOOSE i \in failed : \A j \in failed : i <= j]
      ELSE Ok([i \in 1..Len(ordered) |->
                 core_values \o general_attributes(general) \o ordered[i]]
              \o <<core_values \o general_attributes(general)
                     \o NoneTuple(2 + Len(PERIODICAL_XPATH_MAPPINGS))>>)

\* Rows whose row without period has a null per periodic column and none
\* for period_start and period_end
Rows_short_null_row(core_values, general, periodic) ==
  LET periods == [i \in 1..Len(periodic) |-> PeriodTuple(periodic[i])]
      failed == {i \in 1..Len(periods) : IsRaise(periods[i])}
      ordered == sorted_periods([i \in 1..Len(periods) |-> periods[i].ok])
  IN  IF failed # {} THEN periods[CHOOSE i \in failed : \A j \in failed : i <= j]
      ELSE IF ordered # << >>
           THEN Ok([i \in 1..Len(ordered) |->
                      core_values \o general_attributes(general) \o ordered[i]])
           ELSE Ok(<<core_values \o general_attributes(general)
                       \o NoneTuple(Len(PERIODICAL_XPATH_MAPPINGS))>>)

\* the rows _xbrl_to_rows returns from its stores, or the exception raised
\* while the periods are built
Rows(core_values, general, periodic) ==
  LET periods == [i \in 1..Len(periodic) |-> PeriodTuple(periodic[i])]
      failed == {i \in 1..Len(periods) : IsRaise(periods[i])}
      ordered == sorted_periods([i \in 1..Len(periods) |-> periods[i].ok])
  IN  IF failed # {} THEN periods[CHOOSE i \in failed : \A j \in failed : i <= j]
      ELSE IF ordered # << >>
           THEN Ok([i \in 1..Len(ordered) |->
                      core_values \o general_attributes(general) \o ordered[i]])
           ELSE Ok(<<core_values \o general_attributes(general)
                       \o NoneTuple(2 + Len(PERIODICAL_XPATH_MAPPINGS))>>)

(***************************************************************************)
(* _xbrl_to_rows as a function of one archive member                       *)
(* A filing is [name, contexts, nsmap, elements].                          *)
(***************************************************************************)
Stores(general, periodic) == [general |-> general, periodic |-> periodic]

\* handler(element, ..., name, priority, test, parse) for one candidate c
CallHandler(stores, dates_of, element, c) ==
  IF c.name \in DOMAIN stores.general
  THEN LET after == handle_general(stores.general, element, element.tag,
                                   element.name, element.contextRef, c)
       IN  IF IsRaise(after) THEN after ELSE Ok(Stores(after.ok, stores.periodic))
  ELSE LET after == handle_periodic(stores.periodic, dates_of, element, element.tag,
                                    element.name, element.contextRef, c)
       IN  IF IsRaise(after) THEN after ELSE Ok(Stores(stores.general, after.ok))

\* the handlers called for one element, from position k of its chain on.
\* (Each intermediate result is bound as the member of a singleton, which
\* makes TLC compute it once.)
RECURSIVE HandleChain(_, _, _, _)
HandleChain(stores, dates_of, element, k) ==
  IF k > Len(Chain(element)) THEN Ok(stores)
  ELSE CHOOSE out \in
         { IF IsRaise(after) THEN after ELSE HandleChain(after.ok, dates_of, element, k + 1) :
             after \in {CallHandler(stores, dates_of, element, Chain(element)[k])} } : TRUE

\* for element in document.xpath('//*')
RECURSIVE Traverse(_, _, _)
Traverse(stores, dates_of, elements) ==
  IF elements = << >> THEN Ok(stores)
  ELSE CHOOSE out \in
         { IF IsRaise(after) THEN after ELSE Traverse(after.ok, dates_of, Tail(elements)) :
             after \in {HandleChain(stores, dates_of, Head(elements), 1)} } : TRUE

\* the function the pool's workers run
_xbrl_to_rows(filing, iteration) ==
  CHOOSE out \in
    { IF IsRaise(dates_of) THEN dates_of
      ELSE IF IsRaise(core_values) THEN core_values
      ELSE CHOOSE rows \in
             { IF IsRaise(stores) THEN stores
               ELSE Rows(core_values.ok, stores.ok.general, stores.ok.periodic) :
                 stores \in {Traverse(Stores(InitialGeneral, << >>), dates_of.ok,
                                      filing.elements)} } : TRUE :
        dates_of \in {BuildContextDates(filing.contexts, EmptyDict)},
        core_values \in {core_attributes(filing.name, filing.nsmap, iteration)} } : TRUE

(***************************************************************************)
(* Inputs                                                                  *)
(***************************************************************************)
MaxElements == 3

E(tag, name_suffix, contextRef, text, sign, scale, span) ==
  [tag |-> tag, name |-> name_suffix, contextRef |-> contextRef, text |-> text,
   sign |-> sign, scale |-> scale, span |-> span]

\* an element only its tag and text say anything about
Plain(tag, text) == E(tag, "", << >>, text, "", 0, << >>)

ElementPool ==
  { \* general facts: company_dormant at priority 0 (twice, with different
    \* values), 1 (text the bool parser has no value for) and 3
    E("nonFraction", "EntityDormantTruefalse", << >>, <<"t", "r", "u", "e">>, "", 0, << >>),
    E("nonFraction", "EntityDormantTruefalse", << >>, <<"f", "a", "l", "s", "e">>, "", 0, << >>),
    E("nonFraction", "EntityDormant", << >>, <<"n", "o">>, "", 0, << >>),
    Plain("CompanyNotDormant", <<" ", "t", "r", "u", "e", "\n">>),
    \* an element with a span child
    E("div", "", << >>, << >>, "", 0, <<Plain("span", <<"A", "\"", "B">>)>>),
    \* tangible_fixed_assets at priority 0 and 1 in the contexts c1 and c2
    E("FixedAssets", "", <<"c1">>, <<"1", "2">>, "", 0, << >>),
    E("FixedAssets", "", <<"c1">>, <<"3", "4">>, "", 0, << >>),
    E("nonFraction", "FixedAssets", <<"c1">>, <<" ", "7", " ">>, "", 0, << >>),
    E("FixedAssets", "", <<"c2">>, <<"1", ",", "5">>, "-", 3, << >>),
    \* text the Decimal parser rejects, and text the gate of _parse stops
    E("nonFraction", "FixedAssets", <<"c1">>, <<"a", "b", "c">>, "", 0, << >>),
    E("FixedAssets", "", <<"c2">>, <<"-">>, "", 0, << >>),
    \* a periodic fact without contextRef, a fact and a plain element whose
    \* contextRef names no context, a fact in the context with the bad date
    E("FixedAssets", "", << >>, <<"9">>, "", 0, << >>),
    E("FixedAssets", "", <<"ghost">>, <<"3">>, "", 0, << >>),
    E("td", "", <<"ghost">>, <<"3">>, "", 0, << >>),
    E("FixedAssets", "", <<"c3">>, <<"4">>, "", 0, << >>) }

Period(instant, startDate, endDate) ==
  [instant |-> instant, startDate |-> startDate, endDate |-> endDate]

Context(id, period) == [id |-> id, period |-> <<period>>]

Instant2021 == Period(<<<<"2", "0", "2", "1", "-", "1", "2", "-", "3", "1">>>>, << >>, << >>)

Year2022 ==
  Period(<< >>, <<<<"2", "0", "2", "2", "-", "0", "1", "-", "0", "1">>>>,
                <<<<" ", "2", "0", "2", "2", "-", "1", "2", "-", "3", "1">>>>)

\* 30 February
BadDate == Period(<<<<"2", "0", "2", "1", "-", "0", "2", "-", "3", "0">>>>, << >>, << >>)

\* a period with an endDate and no startDate
NoStartDate ==
  Period(<< >>, << >>, <<<<"2", "0", "2", "2", "-", "1", "2", "-", "3", "1">>>>)

GoodContexts == <<Context(<<"c1">>, Instant2021), Context(<<"c2">>, Year2022)>>

ContextsPool ==
  { GoodContexts \o <<Context(<<"c3">>, BadDate)>>,
    GoodContexts \o <<Context(<<"c4">>, NoStartDate)>> }

GoodName ==
  <<"P", "r", "o", "d", "2", "_", "3", "_", "0", "9", "_",
    "2", "0", "2", "2", "1", "2", "3", "1", ".", "x", "m", "l">>

\* a member of the archive that is not a filing
BadName == <<"r", "e", "a", "d", "m", "e", ".", "x", "m", "l">>

\* the file name of a member and the namespaces its root declares
MemberPool ==
  { <<GoodName, {}>>,
    <<<<"a", "/">> \o GoodName, {"http://www.xbrl.org/uk/gaap/core/2009-09-01"}>>,
    <<BadName, {}>> }

MaxMembers == 2

Filing(member, context_elements, declared, elements) ==
  [name |-> member, contexts |-> context_elements, nsmap |-> declared, elements |-> elements]

OtherName ==
  <<"P", "r", "o", "d", "2", "_", "3", "_", "O", "C", "7", "_",
    "2", "0", "2", "3", "0", "1", "3", "1", ".", "h", "t", "m", "l">>

\* the members an archive is made of: a filing of two periods, a filing
\* without periodic facts, a member whose name is no filing's, and a filing
\* with a fact the Decimal parser rejects
FilingPool ==
  { Filing(GoodName, GoodContexts, {},
           <<E("FixedAssets", "", <<"c1">>, <<"1", "2">>, "", 0, << >>),
             E("FixedAssets", "", <<"c2">>, <<"1", ",", "5">>, "-", 3, << >>)>>),
    Filing(OtherName, GoodContexts, {},
           <<E("nonFraction", "EntityDormantTruefalse", << >>, <<"t", "r", "u", "e">>, "", 0, << >>)>>),
    Filing(BadName, GoodContexts, {},
           <<E("FixedAssets", "", <<"c1">>, <<"1", "2">>, "", 0, << >>)>>),
    Filing(GoodName, GoodContexts, {},
           <<E("nonFraction", "FixedAssets", <<"c1">>, <<"a", "b", "c">>, "", 0, << >>)>>) }

\* the sequences over S of length n at most
SeqsUpTo(S, n) == UNION {[1..k -> S] : k \in 0..n}

(***************************************************************************)
(* The extraction of one document, _xbrl_to_rows, step by step             *)
(***************************************************************************)
VARIABLES
  member_name,          \* the archive member's file name
  contexts,      \* the context elements of the parsed document
  nsmap,         \* the namespace URIs the root element declares
  order,         \* the order this process iterates the whitelist set in
  pc,            \* where _xbrl_to_rows is
  context_dates,
  core,          \* core_attributes
  general_attributes_with_priorities,
  periodic_attributes_with_priorities,
  document,      \* the elements the traversal has reached, in document order
  ci,            \* the position in the chain of the last of them; 0 between elements
  result,        \* None, then [ok |-> the rows returned] or the exception raised
  \* stream_read_xbrl_zip
  archive,       \* the members stream_unzip gives, in archive order
  tasks,         \* per member: Queued, or what _xbrl_to_rows gave in its worker
  finished,      \* the members whose worker has finished, in the order they did
  consumed,      \* how many results the generator has taken from pool.imap
  row_pos,       \* how many rows of the result in hand have been yielded
  yielded,       \* the rows yielded so far
  zip_pc         \* "iterating", "exhausted" or "raised"


zip_vars == <<archive, tasks, finished, consumed, row_pos, yielded, zip_pc>>

extraction_vars ==
  <<member_name, contexts, nsmap, pc, context_dates, core,
    general_attributes_with_priorities, periodic_attributes_with_priorities,
    document, ci, result>>

base_vars == <<extraction_vars, order, zip_vars>>

(***************************************************************************)
(* The state of the other entry points; each specification below leaves    *)
(* the groups that are not its own at their idle values                    *)
(***************************************************************************)
VARIABLES
  \* repeated calls of _xbrl_to_rows on one (name, bytes)
  given,                   \* the archive member (name, bytes) extracted
  runs,                    \* per call: the iteration order of its process and what it returned
  \* one worker process extracting member after member
  calls,                   \* how many members the worker has taken
  taken,                   \* the member it is extracting
  left_over,               \* the stores its previous call ended with
  \* the bytes of a member
  junk,                    \* what precedes the document in them
  raw,                     \* xbrl_xml_str as given
  fed,                     \* what is handed to the parser
  \* stream_read_xbrl_sync
  hrefs,                   \* the href of every link of the pages of links, in page order
  ingest_data_after_date,  \* the date given by the caller
  to_ingest,               \* zip_urls_with_date_in_range_to_ingest
  sync_pos,                \* how many of them _final_date_and_rows has gone through
  sync_yielded,            \* the (final date, rows of a zip) pairs yielded
  sync_pc,                 \* start, iterating, exhausted or raised
  sync_error,              \* the exception raised
  \* stream_read_xbrl_daily_all
  daily_zip_urls,          \* zip_urls: the zip files listed on the page, in listing order
  allow_404,               \* the allow_404 given by the caller
  answered,                \* the status every request made so far was answered with
  daily_pos,               \* how many of zip_urls rows() has gone through
  daily_row,               \* how many rows of the zip file at hand have been yielded
  daily_yielded,           \* the rows yielded
  daily_pc,                \* request, rows, exhausted or raised
  \* stream_read_xbrl_sync_s3_csv
  key_prefix,              \* the key_prefix given by the caller
  existing,                \* the objects of the bucket when the run starts
  bucket,                  \* the objects of the bucket
  uploaded,                \* the keys upload_fileobj was called with, in order
  s3_pc,                   \* list, syncing or raised
  s3_error,                \* the exception raised while listing
  attempt,                 \* which run against the bucket this is
  \* the file-like object upload_fileobj reads the CSV of a zip file from
  csv_columns,             \* the columns given to _convert_to_csv
  csv_rows,                \* the rows given to _convert_to_csv
  produced,                \* how many chunks have been taken from _convert_to_csv
  chunk,                   \* the chunk being handed out
  offset,                  \* how many of its bytes have been handed out
  body_read,               \* the bytes returned by the calls of read so far, in order
  last_read,               \* the size the last call of read was given and what it returned
  \* one call of _parse
  parse_element,           \* the element the text is of
  parse_parser,            \* the parser of the candidate
  parsed,                  \* what the call returned or raised
  parse_pc,                \* call or returned
  \* one call of _xbrl_to_rows on a filing of creditors facts
  stated,                  \* the filing
  extracted                \* what the call returned or raised

call_vars == <<given, runs>>

seq_vars == <<calls, taken, left_over>>

bytes_vars == <<junk, raw, fed>>

sync_vars == <<hrefs, ingest_data_after_date, to_ingest, sync_pos, sync_yielded, sync_pc, sync_error>>

daily_vars == <<daily_zip_urls, allow_404, answered, daily_pos, daily_row, daily_yielded, daily_pc>>

s3_vars == <<key_prefix, existing, bucket, uploaded, s3_pc, s3_error, attempt>>

read_vars == <<csv_columns, csv_rows, produced, chunk, offset, body_read, last_read>>

parse_vars == <<parse_element, parse_parser, parsed, parse_pc>>

facts_vars == <<stated, extracted>>

later_vars == <<call_vars, seq_vars, bytes_vars, sync_vars, daily_vars, s3_vars, read_vars, parse_vars, facts_vars>>

CallIdle ==
  /\ given = None
  /\ runs = << >>

SeqIdle ==
  /\ calls = 0
  /\ taken = None
  /\ left_over = None

BytesIdle ==
  /\ junk = << >>
  /\ raw = << >>
  /\ fed = None

SyncIdle ==
  /\ hrefs = << >>
  /\ ingest_data_after_date = None
  /\ to_ingest = << >>
  /\ sync_pos = 0
  /\ sync_yielded = << >>
  /\ sync_pc = "idle"
  /\ sync_error = None

DailyIdle ==
  /\ daily_zip_urls = << >>
  /\ allow_404 = FALSE
  /\ answered = << >>
  /\ daily_pos = 0
  /\ daily_row = 0
  /\ daily_yielded = << >>
  /\ daily_pc = "idle"

S3Idle ==
  /\ key_prefix = << >>
  /\ existing = {}
  /\ bucket = {}
  /\ uploaded = << >>
  /\ s3_pc = "idle"
  /\ s3_error = None
  /\ attempt = 1

ReadIdle ==
  /\ csv_columns = << >>
  /\ csv_rows = << >>
  /\ produced = 0
  /\ chunk = << >>
  /\ offset = 0
  /\ body_read = << >>
  /\ last_read = None

ParseIdle ==
  /\ parse_element = None
  /\ parse_parser = ""
  /\ parsed = None
  /\ parse_pc = "idle"

FactsIdle ==
  /\ stated = None
  /\ extracted = None

\* every group but the named ones is idle
IdleBut(groups) ==
  /\ IF "call" \in groups THEN TRUE ELSE CallIdle
  /\ IF "seq" \in groups THEN TRUE ELSE SeqIdle
  /\ IF "bytes" \in groups THEN TRUE ELSE BytesIdle
  /\ IF "sync" \in groups THEN TRUE ELSE SyncIdle
  /\ IF "daily" \in groups THEN TRUE ELSE DailyIdle
  /\ IF "s3" \in groups THEN TRUE ELSE S3Idle
  /\ IF "read" \in groups THEN TRUE ELSE ReadIdle
  /\ IF "parse" \in groups THEN TRUE ELSE ParseIdle
  /\ IF "facts" \in groups THEN TRUE ELSE FactsIdle

LaterIdle == IdleBut({})

\* what the steps on call_vars leave alone
beside_call_vars == <<seq_vars, bytes_vars, sync_vars, daily_vars, s3_vars, read_vars, parse_vars, facts_vars>>

not_call_vars == <<base_vars, beside_call_vars>>

\* what the steps on seq_vars leave alone
beside_seq_vars == <<call_vars, bytes_vars, sync_vars, daily_vars, s3_vars, read_vars, parse_vars, facts_vars>>

not_seq_vars == <<base_vars, beside_seq_vars>>

\* what the steps on bytes_vars leave alone
beside_bytes_vars == <<call_vars, seq_vars, sync_vars, daily_vars, s3_vars, read_vars, parse_vars, facts_vars>>

not_bytes_vars == <<base_vars, beside_bytes_vars>>

\* what the steps on sync_vars leave alone
beside_sync_vars == <<call_vars, seq_vars, bytes_vars, daily_vars, s3_vars, read_vars, parse_vars, facts_vars>>

not_sync_vars == <<base_vars, beside_sync_vars>>

\* what the steps on daily_vars leave alone
beside_daily_vars == <<call_vars, seq_vars, bytes_vars, sync_vars, s3_vars, read_vars, parse_vars, facts_vars>>

not_daily_vars == <<base_vars, beside_daily_vars>>

\* what the steps on s3_vars leave alone
beside_s3_vars == <<call_vars, seq_vars, bytes_vars, sync_vars, daily_vars, read_vars, parse_vars, facts_vars>>

not_s3_vars == <<base_vars, beside_s3_vars>>

\* what the steps on read_vars leave alone
beside_read_vars == <<call_vars, seq_vars, bytes_vars, sync_vars, daily_vars, s3_vars, parse_vars, facts_vars>>

not_read_vars == <<base_vars, beside_read_vars>>

\* what the steps on parse_vars leave alone
beside_parse_vars == <<call_vars, seq_vars, bytes_vars, sync_vars, daily_vars, s3_vars, read_vars, facts_vars>>

not_parse_vars == <<base_vars, beside_parse_vars>>

\* what the steps on facts_vars leave alone
beside_facts_vars == <<call_vars, seq_vars, bytes_vars, sync_vars, daily_vars, s3_vars, read_vars, parse_vars>>

not_facts_vars == <<base_vars, beside_facts_vars>>

\* what the steps on sync_vars and s3_vars leave alone
not_sync_s3_vars == <<base_vars, call_vars, seq_vars, bytes_vars, daily_vars, read_vars, parse_vars, facts_vars>>

(***************************************************************************)
(* end of the declarations                                                 *)
(***************************************************************************)

vars == <<base_vars, later_vars>>

ZipIdle ==
  /\ archive = << >>
  /\ tasks = << >>
  /\ finished = << >>
  /\ consumed = 0
  /\ row_pos = 0
  /\ yielded = << >>
  /\ zip_pc = "idle"

inputs == <<member_name, contexts, nsmap, order>>

Init ==
  /\ \E member \in MemberPool : member_name = member[1] /\ nsmap = member[2]
  /\ contexts \in ContextsPool
  /\ order = allowed_taxonomies
  /\ pc = "context_dates"
  /\ context_dates = EmptyDict
  /\ core = << >>
  /\ general_attributes_with_priorities = InitialGeneral
  /\ periodic_attributes_with_priorities = << >>
  /\ document = << >>
  /\ ci = 0
  /\ result = None
  /\ ZipIdle
  /\ LaterIdle

\* an exception leaves _xbrl_to_rows
Raised(exc) ==
  /\ pc' = "raised"
  /\ result' = exc

\* context_dates = { e.get('id'): _get_dates(...) for e in contexts }
BuildContextIndex ==
  /\ pc = "context_dates"
  /\ LET built == BuildContextDates(contexts, EmptyDict)
     IN  IF IsRaise(built)
         THEN Raised(built) /\ UNCHANGED context_dates
         ELSE context_dates' = built.ok /\ pc' = "core_attributes" /\ UNCHANGED result
  /\ UNCHANGED <<zip_vars, later_vars, inputs, core, general_attributes_with_priorities,
                 periodic_attributes_with_priorities, document, ci>>

\* the file name is matched and core_attributes is built
CoreAttributes ==
  /\ pc = "core_attributes"
  /\ LET built == core_attributes(member_name, nsmap, order)
     IN  IF IsRaise(built)
         THEN Raised(built) /\ UNCHANGED core
         ELSE core' = built.ok /\ pc' = "traverse" /\ UNCHANGED result
  /\ UNCHANGED <<zip_vars, later_vars, inputs, context_dates, general_attributes_with_priorities,
                 periodic_attributes_with_priorities, document, ci>>

\* for element in document.xpath('//*'): the traversal reaches the next element
NextElement ==
  /\ pc = "traverse"
  /\ ci = 0
  /\ Len(document) < MaxElements
  /\ \E element \in ElementPool : document' = Append(document, element)
  /\ ci' = 1
  /\ UNCHANGED <<zip_vars, later_vars, inputs, pc, context_dates, core, general_attributes_with_priorities,
                 periodic_attributes_with_priorities, result>>

Current == document[Len(document)]

Candidate == Chain(Current)[ci]

Advance == ci' = IF ci = Len(Chain(Current)) THEN 0 ELSE ci + 1

\* handler(...) where the candidate's column is a general one
HandleGeneral ==
  /\ pc = "traverse"
  /\ ci > 0
  /\ Candidate.name \in DOMAIN general_attributes_with_priorities
  /\ LET after == handle_general(general_attributes_with_priorities, Current, Current.tag,
                                 Current.name, Current.contextRef, Candidate)
     IN  IF IsRaise(after)
         THEN Raised(after) /\ UNCHANGED <<general_attributes_with_priorities, ci>>
         ELSE /\ general_attributes_with_priorities' = after.ok
              /\ Advance
              /\ UNCHANGED <<pc, result>>
  /\ UNCHANGED <<zip_vars, later_vars, inputs, context_dates, core, periodic_attributes_with_priorities, document>>

\* handler(...) where it is a periodic one
HandlePeriodic ==
  /\ pc = "traverse"
  /\ ci > 0
  /\ Candidate.name \notin DOMAIN general_attributes_with_priorities
  /\ LET after == handle_periodic(periodic_attributes_with_priorities, context_dates, Current,
                                  Current.tag, Current.name, Current.contextRef, Candidate)
     IN  IF IsRaise(after)
         THEN Raised(after) /\ UNCHANGED <<periodic_attributes_with_priorities, ci>>
         ELSE /\ periodic_attributes_with_priorities' = after.ok
              /\ Advance
              /\ UNCHANGED <<pc, result>>
  /\ UNCHANGED <<zip_vars, later_vars, inputs, context_dates, core, general_attributes_with_priorities, document>>

\* the traversal is over: the rows are assembled and returned
AssembleRows ==
  /\ pc = "traverse"
  /\ ci = 0
  /\ LET rows == Rows(core, general_attributes_with_priorities,
                      periodic_attributes_with_priorities)
     IN  IF IsRaise(rows) THEN Raised(rows)
         ELSE pc' = "returned" /\ result' = rows
  /\ UNCHANGED <<zip_vars, later_vars, inputs, context_dates, core, general_attributes_with_priorities,
                 periodic_attributes_with_priorities, document, ci>>

Next ==
  \/ BuildContextIndex
  \/ CoreAttributes
  \/ NextElement
  \/ HandleGeneral
  \/ HandlePeriodic
  \/ AssembleRows

Spec == Init /\ [][Next]_vars

(***************************************************************************)
(* stream_read_xbrl_zip: pool.imap(_xbrl_to_rows, members), its results    *)
(* taken in member order and their rows yielded one by one                 *)
(***************************************************************************)
ExtractionIdle ==
  /\ member_name = << >>
  /\ contexts = << >>
  /\ nsmap = {}
  /\ pc = "idle"
  /\ context_dates = EmptyDict
  /\ core = << >>
  /\ general_attributes_with_priorities = InitialGeneral
  /\ periodic_attributes_with_priorities = << >>
  /\ document = << >>
  /\ ci = 0
  /\ result = None

Queued == [queued |-> TRUE]

InitZip ==
  /\ ExtractionIdle
  /\ LaterIdle
  /\ order = allowed_taxonomies
  /\ archive \in SeqsUpTo(FilingPool, MaxMembers)
  /\ tasks = [i \in 1..Len(archive) |-> Queued]
  /\ finished = << >>
  /\ consumed = 0
  /\ row_pos = 0
  /\ yielded = << >>
  /\ zip_pc = "iterating"

\* a worker of the pool runs _xbrl_to_rows on a member; the workers finish
\* in any order
WorkerRuns ==
  /\ zip_pc = "iterating"
  /\ \E i \in 1..Len(archive) :
       /\ tasks[i] = Queued
       /\ tasks' = [tasks EXCEPT ![i] = _xbrl_to_rows(archive[i], order)]
       /\ finished' = Append(finished, i)
  /\ UNCHANGED <<extraction_vars, order, later_vars, archive, consumed, row_pos, yielded, zip_pc>>

Done(i) == tasks[i] # Queued

Outcome(i) == tasks[i]

\* pool.imap_unordered: the results come in the order the workers finish
imap_unordered_next(n, arrival) == IF n < Len(arrival) THEN arrival[n + 1] ELSE 0

\* pool.imap: the member whose result comes after n results, the results
\* coming in the order the tasks were submitted, whatever order the workers
\* finish in
imap_next(n, arrival) == n + 1

\* the member whose result the generator has in hand
InHand == imap_next(consumed - 1, finished)

\* every row of the result in hand has been yielded
InHandYielded == IF consumed = 0 THEN TRUE ELSE row_pos = Len(Outcome(InHand).ok)

\* for results in pool.imap(...): the next result is taken once its worker
\* has finished; an exception raised in the worker is raised again here and
\* ends the generator
TakeResult ==
  /\ zip_pc = "iterating"
  /\ consumed < Len(archive)
  /\ InHandYielded
  /\ \E i \in {imap_next(consumed, finished)} \cap (1..Len(archive)) :
       /\ Done(i)
       /\ IF IsRaise(Outcome(i))
          THEN zip_pc' = "raised" /\ UNCHANGED <<consumed, row_pos>>
          ELSE consumed' = consumed + 1 /\ row_pos' = 0 /\ UNCHANGED zip_pc
  /\ UNCHANGED <<extraction_vars, order, later_vars, archive, tasks, finished, yielded>>

\* for row in results: yield row
YieldRow ==
  /\ zip_pc = "iterating"
  /\ consumed > 0
  /\ row_pos < Len(Outcome(InHand).ok)
  /\ row_pos' = row_pos + 1
  /\ yielded' = Append(yielded, Outcome(InHand).ok[row_pos + 1])
  /\ UNCHANGED <<extraction_vars, order, later_vars, archive, tasks, finished, consumed, zip_pc>>

\* the last result has been yielded
Exhausted ==
  /\ zip_pc = "iterating"
  /\ consumed = Len(archive)
  /\ InHandYielded
  /\ zip_pc' = "exhausted"
  /\ UNCHANGED <<extraction_vars, order, later_vars, archive, tasks, finished, consumed, row_pos,
                 yielded>>

NextZip ==
  \/ WorkerRuns
  \/ TakeResult
  \/ YieldRow
  \/ Exhausted

SpecZip == InitZip /\ [][NextZip]_vars

(***************************************************************************)
(* _xbrl_to_rows called more than once on the same (name, bytes), each     *)
(* call in a process of its own.  CPython salts the hash of a string per   *)
(* process, so the order a set of strings is iterated in is any order.     *)
(***************************************************************************)
MaxCalls == 2

\* the orders a process may iterate set(allowed_taxonomies) & set(nsmap.values()) in
Orders ==
  { [i \in 1..3 |-> allowed_taxonomies[p[i]]] :
      p \in {q \in [1..3 -> 1..3] : \A i, j \in 1..3 : q[i] = q[j] => i = j} }

\* member names: those of filings, and names that miss or exceed the pattern
NamePool ==
  { d \o r \o <<"_">> \o c \o <<"_">> \o t \o e \o x :
      d \in {<< >>, <<"a", "/">>},
      r \in {<<"P", "r", "o", "d", "2", "_", "3">>, <<"P", "r", "o", "d", "2", "2", "3", "_", "3", "3", "8", "4">>, <<"P", "r", "o", "d", "_", "3">>},
      c \in {<<"0", "9">>, <<"O", "C", "7">>},
      t \in {<<"2", "0", "2", "2", "1", "2", "3", "1">>, <<"2", "0", "2", "2", "1", "2", "3">>, <<"2", "0", "2", "2", "1", "3", "3", "1">>},
      e \in {<<".", "x", "m", "l">>, <<".", "h", "t", "m", "l">>, <<".", "h", "t", "m">>},
      x \in {<< >>, <<"x">>, <<".", "b", "a", "k">>} }

\* the namespaces a root element declares
DeclaredPool ==
  { {},
    {"http://www.xbrl.org/uk/gaap/core/2009-09-01", "http://www.xbrl.org/2003/instance"},
    {"http://www.xbrl.org/uk/fr/gaap/pt/2004-12-01", "http://www.xbrl.org/uk/gaap/core/2009-09-01"} }

CallPool ==
  { Filing(n, GoodContexts, declared,
           <<E("FixedAssets", "", <<"c1">>, <<"1", "2">>, "", 0, << >>)>>) :
      n \in NamePool, declared \in DeclaredPool }

InitCalls ==
  /\ ExtractionIdle
  /\ order = allowed_taxonomies
  /\ ZipIdle
  /\ IdleBut({"call"})
  /\ given \in CallPool
  /\ runs = << >>

\* one call of _xbrl_to_rows((name, bytes)), in a process whose string
\* hashing gives the iteration order chosen here
Invoke ==
  /\ Len(runs) < MaxCalls
  /\ \E iteration \in Orders :
       runs' = Append(runs, [iteration |-> iteration,
                             rows |-> _xbrl_to_rows(given, iteration)])
  /\ UNCHANGED <<given, not_call_vars>>

NextCalls == Invoke

SpecCalls == InitCalls /\ [][NextCalls]_vars

(***************************************************************************)
(* A worker process of the pool: it runs _xbrl_to_rows on one member after *)
(* another, in the same interpreter                                        *)
(***************************************************************************)
\* every call builds its dictionaries anew, whatever the call before it
\* left in memory
stores_kept_across_calls(left) ==
  IF left = None THEN Stores(InitialGeneral, << >>) ELSE left

stores_at_entry(left) == Stores(InitialGeneral, << >>)

InitSeq ==
  /\ ExtractionIdle
  /\ order = allowed_taxonomies
  /\ ZipIdle
  /\ IdleBut({"seq"})
  /\ calls = 0
  /\ taken = None
  /\ left_over = None

\* the worker takes its next task: _xbrl_to_rows is entered with a member
TakeMember ==
  /\ pc \in {"idle", "returned", "raised"}
  /\ calls < MaxCalls
  /\ calls' = calls + 1
  /\ left_over' = IF calls = 0 THEN None
                  ELSE Stores(general_attributes_with_priorities,
                              periodic_attributes_with_priorities)
  /\ \E f \in FilingPool :
       /\ taken' = f
       /\ member_name' = f.name
       /\ contexts' = f.contexts
       /\ nsmap' = f.nsmap
  /\ general_attributes_with_priorities' = stores_at_entry(left_over').general
  /\ periodic_attributes_with_priorities' = stores_at_entry(left_over').periodic
  /\ pc' = "context_dates"
  /\ context_dates' = EmptyDict
  /\ core' = << >>
  /\ document' = << >>
  /\ ci' = 0
  /\ result' = None
  /\ UNCHANGED <<order, zip_vars, beside_seq_vars>>

\* for element in document.xpath('//*'): the next element of the member
ReadElement ==
  /\ pc = "traverse"
  /\ ci = 0
  /\ Len(document) < Len(taken.elements)
  /\ document' = Append(document, taken.elements[Len(document) + 1])
  /\ ci' = 1
  /\ UNCHANGED <<zip_vars, later_vars, inputs, pc, context_dates, core,
                 general_attributes_with_priorities, periodic_attributes_with_priorities, result>>

\* the rows are assembled once the last element has been handled
LastElementHandled ==
  /\ pc = "traverse"
  /\ Len(document) = Len(taken.elements)
  /\ AssembleRows

NextSeq ==
  \/ TakeMember
  \/ BuildContextIndex
  \/ CoreAttributes
  \/ ReadElement
  \/ HandleGeneral
  \/ HandlePeriodic
  \/ LastElementHandled

SpecSeq == InitSeq /\ [][NextSeq]_vars

(***************************************************************************)
(* The bytes of a member: what precedes the first '<' is cut off before    *)
(* the parser reads them.  Nothing else of _xbrl_to_rows reads the bytes.  *)
(***************************************************************************)
MaxBytes == 2

\* bytes.find counting positions from 1 instead of 0
find_from_one(s, b) ==
  IF \E i \in 1..Len(s) : s[i] = b
  THEN CHOOSE i \in 1..Len(s) : s[i] = b /\ \A j \in 1..(i - 1) : s[j] # b
  ELSE -1

\* bytes.find(b): the lowest index, counted from 0, where b is; -1 if nowhere
find(s, b) ==
  IF \E i \in 1..Len(s) : s[i] = b
  THEN (CHOOSE i \in 1..Len(s) : s[i] = b /\ \A j \in 1..(i - 1) : s[j] # b) - 1
  ELSE -1

\* s[i:], a negative i counting from the end
slice_from(s, i) ==
  LET start == IF i < 0 THEN (IF Len(s) + i < 0 THEN 0 ELSE Len(s) + i)
               ELSE (IF i > Len(s) THEN Len(s) ELSE i)
  IN  SubSeq(s, start + 1, Len(s))

\* xbrl_xml_str[xbrl_xml_str.find(b'<'):]
remove_bom(xbrl_xml_str) == slice_from(xbrl_xml_str, find(xbrl_xml_str, "<"))

\* the first byte of a UTF-8 byte order mark, a letter, and '<'
Bytes == {"EF", "a", "<"}

InitBytes ==
  /\ ExtractionIdle
  /\ order = allowed_taxonomies
  /\ ZipIdle
  /\ IdleBut({"bytes"})
  /\ junk \in SeqsUpTo(Bytes, MaxBytes)
  /\ \E d \in SeqsUpTo(Bytes, MaxBytes) : raw = junk \o d
  /\ fed = None

\* xbrl_xml_str = BytesIO(xbrl_xml_str[xbrl_xml_str.find(b'<'):])
RemoveBOM ==
  /\ fed = None
  /\ fed' = [bytes |-> remove_bom(raw)]
  /\ UNCHANGED <<junk, raw, not_bytes_vars>>

NextBytes == RemoveBOM

SpecBytes == InitBytes /\ [][NextBytes]_vars

(***************************************************************************)
(* stream_read_xbrl_sync: the zip files listed on the pages of links, the  *)
(* dates their names stand for, and the ones the caller is handed          *)
(***************************************************************************)
\* os.path.splitext(p)[0]: p without the extension of its last component
splitext_root(p) ==
  LET from == Len(p) - Len(basename(p)) + 1
      dots == {i \in from..Len(p) : p[i] = "." /\ \E k \in from..(i - 1) : p[k] # "."}
  IN  IF dots = {} THEN p
      ELSE SubSeq(p, 1, (CHOOSE i \in dots : \A j \in dots : j <= i) - 1)

\* w in s
HasSub(s, w) == \E i \in 1..(Len(s) - Len(w) + 1) : SubSeq(s, i, i + Len(w) - 1) = w

\* s.endswith(w)
endswith(s, w) == Len(w) <= Len(s) /\ SubSeq(s, Len(s) - Len(w) + 1, Len(s)) = w

\* s[-4:]
last_four(s) == IF Len(s) <= 4 THEN s ELSE SubSeq(s, Len(s) - 3, Len(s))

\* s[:-4]
but_last_four(s) == IF Len(s) <= 4 THEN << >> ELSE SubSeq(s, 1, Len(s) - 4)

\* s.split(sep)
RECURSIVE split(_, _)
split(s, sep) ==
  LET at == {i \in 1..Len(s) : s[i] = sep}
  IN  IF at = {} THEN <<s>>
      ELSE LET first == CHOOSE i \in at : \A j \in at : i <= j
           IN  <<SubSeq(s, 1, first - 1)>> \o split(SubSeq(s, first + 1, Len(s)), sep)

\* s.split(sep, 1): cut at the first sep only
split_once(s, sep) ==
  LET at == {i \in 1..Len(s) : s[i] = sep}
  IN  IF at = {} THEN <<s>>
      ELSE LET first == CHOOSE i \in at : \A j \in at : i <= j
           IN  <<SubSeq(s, 1, first - 1), SubSeq(s, first + 1, Len(s))>>

\* int(text) of an unsigned decimal numeral
to_int(text) ==
  IF strip(text) # << >> /\ AllDigits(strip(text)) THEN Ok(NatVal(strip(text)))
  ELSE Raise("ValueError")

\* datetime.date(year, month, day)
date(year, month, day) ==
  IF ValidDate(year, month, day) /\ year <= 9999 THEN [date |-> <<year, month, day>>]
  ELSE Raise("ValueError")

Upper ==
  <<"A", "B", "C", "D", "E", "F", "G", "H", "I", "J", "K", "L", "M", "N", "O", "P", "Q",
    "R", "S", "T", "U", "V", "W", "X", "Y", "Z">>

Lower ==
  <<"a", "b", "c", "d", "e", "f", "g", "h", "i", "j", "k", "l", "m", "n", "o", "p", "q",
    "r", "s", "t", "u", "v", "w", "x", "y", "z">>

\* str.lower() on letters
lower(s) ==
  [i \in 1..Len(s) |->
     IF \E k \in 1..26 : Upper[k] = s[i] THEN Lower[CHOOSE k \in 1..26 : Upper[k] = s[i]]
     ELSE s[i]]

MonthNames ==
  <<<<"j", "a", "n", "u", "a", "r", "y">>,
    <<"f", "e", "b", "r", "u", "a", "r", "y">>,
    <<"m", "a", "r", "c", "h">>,
    <<"a", "p", "r", "i", "l">>,
    <<"m", "a", "y">>,
    <<"j", "u", "n", "e">>,
    <<"j", "u", "l", "y">>,
    <<"a", "u", "g", "u", "s", "t">>,
    <<"s", "e", "p", "t", "e", "m", "b", "e", "r">>,
    <<"o", "c", "t", "o", "b", "e", "r">>,
    <<"n", "o", "v", "e", "m", "b", "e", "r">>,
    <<"d", "e", "c", "e", "m", "b", "e", "r">>>>

\* datetime.datetime.strptime(text, '%B').month: a full month name, in any case
strptime_month(text) ==
  IF \E m \in 1..12 : MonthNames[m] = lower(text)
  THEN Ok(CHOOSE m \in 1..12 : MonthNames[m] = lower(text))
  ELSE Raise("ValueError")

\* datetime.datetime.strptime(text, '%Y-%m-%d').date(): four digits, then a
\* month and a day of one or two digits
strptime_date(text) ==
  LET parts == split(text, "-")
  IN  IF /\ Len(parts) = 3
         /\ Len(parts[1]) = 4 /\ AllDigits(parts[1])
         /\ Len(parts[2]) \in 1..2 /\ AllDigits(parts[2])
         /\ Len(parts[3]) \in 1..2 /\ AllDigits(parts[3])
      THEN date(NatVal(parts[1]), NatVal(parts[2]), NatVal(parts[3]))
      ELSE Raise("ValueError")

NoDates == <<None, None>>

\* extract_start_end_dates(url): [ok |-> (start, end)], or the exception raised
extract_start_end_dates(url) ==
  LET file_name_no_ext == splitext_root(basename(url))
  IN  IF HasSub(file_name_no_ext, <<"J", "a", "n", "T", "o", "D", "e", "c">>)
         \/ HasSub(file_name_no_ext, <<"J", "a", "n", "u", "a", "r", "y", "T", "o", "D", "e", "c", "e", "m", "b", "e", "r">>)
      THEN LET year == to_int(last_four(splitext_root(url)))
           IN  IF IsRaise(year) THEN year
               ELSE IF IsRaise(date(year.ok, 1, 1)) THEN date(year.ok, 1, 1)
               ELSE Ok(<<date(year.ok, 1, 1), date(year.ok, 12, 31)>>)
      ELSE IF HasSub(file_name_no_ext, <<"A", "c", "c", "o", "u", "n", "t", "s", "_", "M", "o", "n", "t", "h", "l", "y", "_", "D", "a", "t", "a">>)
      THEN LET year == to_int(last_four(file_name_no_ext))
               pieces == split(file_name_no_ext, "-")
           IN  IF IsRaise(year) THEN year
               ELSE IF Len(pieces) < 2 THEN Raise("IndexError")
               ELSE LET month_num == strptime_month(but_last_four(pieces[2]))
                    IN  IF IsRaise(month_num) THEN month_num
                        ELSE IF IsRaise(date(year.ok, month_num.ok, 1))
                             THEN date(year.ok, month_num.ok, 1)
                        ELSE Ok(<<date(year.ok, month_num.ok, 1),
                                  date(year.ok, month_num.ok,
                                       DaysInMonth(year.ok, month_num.ok))>>)
      ELSE IF HasSub(file_name_no_ext, <<"A", "c", "c", "o", "u", "n", "t", "s", "_", "B", "u", "l", "k", "_", "D", "a", "t", "a">>)
      THEN LET pieces == split_once(file_name_no_ext, "-")
           IN  IF Len(pieces) < 2 THEN Raise("IndexError")
               ELSE IF IsRaise(strptime_date(pieces[2])) THEN strptime_date(pieces[2])
               ELSE Ok(<<strptime_date(pieces[2]), strptime_date(pieces[2])>>)
      ELSE Ok(NoDates)

\* the page the links are on
DataUrl ==
  <<"h", "t", "t", "p", "s", ":", "/", "/", "h", "/", "e", "n", "_", "a", "c", "c", "o",
    "u", "n", "t", "s", "d", "a", "t", "a", ".", "h", "t", "m", "l">>

\* urllib.parse.urljoin(data_url, href) for an href without scheme or leading
\* '/': the href takes the place of the last component of data_url
urljoin(data_url, href) == SubSeq(data_url, 1, Len(data_url) - Len(basename(data_url))) \o href

startswith(s, w) == Len(w) <= Len(s) /\ SubSeq(s, 1, Len(w)) = w

\* all_zip_urls: the links whose href ends in .zip, made absolute
all_zip_urls(links) ==
  LET IsZip(href) == endswith(href, <<".", "z", "i", "p">>)
      zips == SelectSeq(links, IsZip)
  IN  [i \in 1..Len(zips) |->
         IF startswith(strip(zips[i]), <<"h", "t", "t", "p", ":", "/", "/">>)
            \/ startswith(strip(zips[i]), <<"h", "t", "t", "p", "s", ":", "/", "/">>)
         THEN strip(zips[i])
         ELSE urljoin(DataUrl, strip(zips[i]))]

\* all_zip_urls_with_dates: [ok |-> the (zip_url, (start, end)) pairs], or the
\* first exception raised by extract_start_end_dates
all_zip_urls_with_dates(zip_urls) ==
  LET failed == {i \in 1..Len(zip_urls) : IsRaise(extract_start_end_dates(zip_urls[i]))}
  IN  IF failed # {}
      THEN extract_start_end_dates(zip_urls[CHOOSE i \in failed : \A j \in failed : i <= j])
      ELSE Ok([i \in 1..Len(zip_urls) |->
                 [zip_url |-> zip_urls[i], dates |-> extract_start_end_dates(zip_urls[i]).ok]])

HasDates(pair) == pair.dates # NoDates

all_zip_urls_with_parseable_dates(pairs) == SelectSeq(pairs, HasDates)

\* key=lambda zip_start_end: (zip_start_end[1][0], zip_start_end[1][1])
OlderThan(a, b) ==
  \/ DateLess(a.dates[1].date, b.dates[1].date)
  \/ a.dates[1].date = b.dates[1].date /\ DateLess(a.dates[2].date, b.dates[2].date)

\* sorted(...): ascending and stable
RECURSIVE InsertOldestFirst(_, _)
InsertOldestFirst(sorted, pair) ==
  IF sorted = << >> THEN <<pair>>
  ELSE IF OlderThan(pair, Head(sorted)) THEN <<pair>> \o sorted
  ELSE <<Head(sorted)>> \o InsertOldestFirst(Tail(sorted), pair)

RECURSIVE all_zip_urls_with_dates_oldest_first(_, _)
all_zip_urls_with_dates_oldest_first(pairs, acc) ==
  IF pairs = << >> THEN acc
  ELSE all_zip_urls_with_dates_oldest_first(Tail(pairs), InsertOldestFirst(acc, Head(pairs)))

\* a <= b on dates
NotAfter(a, b) == ~ DateLess(b.date, a.date)

\* num_overlaps(start, end): the listed ranges that contain start..end
num_overlaps(start, end, oldest_first) ==
  Cardinality({i \in 1..Len(oldest_first) :
                 /\ NotAfter(oldest_first[i].dates[1], start)
                 /\ NotAfter(end, oldest_first[i].dates[2])})

\* all_zip_urls_with_dates_without_overlaps without the test on num_overlaps
with_overlaps_kept(oldest_first) == oldest_first

all_zip_urls_with_dates_without_overlaps(oldest_first) ==
  LET Alone(pair) == num_overlaps(pair.dates[1], pair.dates[2], oldest_first) = 1
  IN  SelectSeq(oldest_first, Alone)

\* end_date >= ingest_data_after_date
in_range_or_on_the_date(end_date, after) == ~ DateLess(end_date.date, after.date)

\* end_date > ingest_data_after_date
in_range(end_date, after) == DateLess(after.date, end_date.date)

\* the zip files a caller that gave the date after is handed, oldest first
zip_urls_with_date_in_range_to_ingest(without_overlaps, after) ==
  LET InRange(pair) == pair.dates # NoDates /\ in_range(pair.dates[2], after)
  IN  SelectSeq(without_overlaps, InRange)

\* the zip files selected among the links: those with a date range no other
\* listed range contains, oldest first; or the exception raised
Selected(links) ==
  LET with_dates == all_zip_urls_with_dates(all_zip_urls(links))
  IN  IF IsRaise(with_dates) THEN with_dates
      ELSE Ok(all_zip_urls_with_dates_without_overlaps(
                all_zip_urls_with_dates_oldest_first(
                  all_zip_urls_with_parseable_dates(with_dates.ok), << >>)))

MaxLinks == 2

HrefPool ==
  { <<"A", "c", "c", "o", "u", "n", "t", "s", "_", "M", "o", "n", "t", "h", "l", "y", "_",
      "D", "a", "t", "a", "-", "J", "a", "n", "u", "a", "r", "y", "2", "0", "2", "1", ".",
      "z", "i", "p">>,
    <<"A", "c", "c", "o", "u", "n", "t", "s", "_", "B", "u", "l", "k", "_", "D", "a", "t",
      "a", "-", "2", "0", "2", "1", "-", "0", "5", "-", "0", "2", ".", "z", "i", "p">>,
    <<"A", "c", "c", "o", "u", "n", "t", "s", "_", "B", "u", "l", "k", "_", "D", "a", "t",
      "a", "-", "2", "0", "2", "2", "-", "0", "2", "-", "0", "8", ".", "z", "i", "p">>,
    <<"A", "c", "c", "o", "u", "n", "t", "s", "_", "M", "o", "n", "t", "h", "l", "y", "_",
      "D", "a", "t", "a", "-", "F", "e", "b", "r", "u", "a", "r", "y", "2", "0", "2", "2",
      ".", "z", "i", "p">>,
    <<"A", "c", "c", "o", "u", "n", "t", "s", "_", "M", "o", "n", "t", "h", "l", "y", "_",
      "D", "a", "t", "a", "-", "J", "a", "n", "u", "a", "r", "y", "T", "o", "D", "e", "c",
      "e", "m", "b", "e", "r", "2", "0", "2", "1", ".", "z", "i", "p">>,
    <<"e", "n", "_", "a", "c", "c", "o", "u", "n", "t", "s", "d", "a", "t", "a", ".", "h",
      "t", "m", "l">>,
    <<"o", "t", "h", "e", "r", ".", "z", "i", "p">>,
    <<"A", "c", "c", "o", "u", "n", "t", "s", "_", "B", "u", "l", "k", "_", "D", "a", "t",
      "a", "-", "2", "0", "2", "1", "-", "1", "3", "-", "0", "2", ".", "z", "i", "p">> }

\* datetime.date(datetime.MINYEAR, 1, 1), the default, and days around the
\* ends of the listed ranges
AfterDatePool ==
  { date(1, 1, 1), date(2021, 5, 1), date(2021, 5, 2), date(2021, 5, 3),
    date(2022, 2, 8), date(2022, 2, 28) }

\* the status a GET is answered with
StatusPool == {200, 404, 500}

InitSync ==
  /\ ExtractionIdle
  /\ order = allowed_taxonomies
  /\ ZipIdle
  /\ IdleBut({"sync"})
  /\ hrefs \in SeqsUpTo(HrefPool, MaxLinks)
  /\ ingest_data_after_date \in AfterDatePool
  /\ to_ingest = << >>
  /\ sync_pos = 0
  /\ sync_yielded = << >>
  /\ sync_pc = "start"
  /\ sync_error = None

\* the pages of links are fetched (get_content raises on an error status)
\* and zip_urls_with_date_in_range_to_ingest is computed
SelectZips ==
  /\ sync_pc = "start"
  /\ \E status \in StatusPool :
       IF status # 200
       THEN sync_pc' = "raised" /\ sync_error' = Raise("HTTPStatusError") /\ UNCHANGED to_ingest
       ELSE IF IsRaise(Selected(hrefs))
       THEN sync_pc' = "raised" /\ sync_error' = Selected(hrefs) /\ UNCHANGED to_ingest
       ELSE /\ to_ingest' = zip_urls_with_date_in_range_to_ingest(Selected(hrefs).ok,
                                                                  ingest_data_after_date)
            /\ sync_pc' = "iterating"
            /\ UNCHANGED sync_error
  /\ UNCHANGED <<hrefs, ingest_data_after_date, sync_pos, sync_yielded, not_sync_vars>>

\* _final_date_and_rows: the next zip file is requested; an error status
\* raises, and else its end date and its rows are yielded
YieldFinalDateAndRows ==
  /\ sync_pc = "iterating"
  /\ sync_pos < Len(to_ingest)
  /\ \E status \in StatusPool :
       IF status # 200
       THEN /\ sync_pc' = "raised"
            /\ sync_error' = Raise("HTTPStatusError")
            /\ UNCHANGED <<sync_pos, sync_yielded>>
       ELSE /\ sync_pos' = sync_pos + 1
            /\ sync_yielded' = Append(sync_yielded,
                                      [final_date |-> to_ingest[sync_pos + 1].dates[2],
                                       zip_url |-> to_ingest[sync_pos + 1].zip_url])
            /\ UNCHANGED <<sync_pc, sync_error>>
  /\ UNCHANGED <<hrefs, ingest_data_after_date, to_ingest, not_sync_vars>>

\* the last zip file has been yielded
SyncExhausted ==
  /\ sync_pc = "iterating"
  /\ sync_pos = Len(to_ingest)
  /\ sync_pc' = "exhausted"
  /\ UNCHANGED <<hrefs, ingest_data_after_date, to_ingest, sync_pos, sync_yielded, sync_error,
                 not_sync_vars>>

NextSync ==
  \/ SelectZips
  \/ YieldFinalDateAndRows
  \/ SyncExhausted

SpecSync == InitSync /\ [][NextSync]_vars

(***************************************************************************)
(* stream_read_xbrl_daily_all: the rows of every zip file listed on the    *)
(* page, a file that is not found being passed over when allow_404 is set  *)
(***************************************************************************)
MaxZips == 3

DailyZipPool == {"Accounts_Bulk_Data-2021-05-01.zip", "Accounts_Bulk_Data-2021-05-02.zip"}

\* the rows stream_read_xbrl_zip yields for the body of a zip file, each
\* named after its file and its place in it
RowsOfZip(url, place) ==
  IF url = "Accounts_Bulk_Data-2021-05-01.zip"
  THEN <<[zip |-> url, place |-> place, row |-> 1], [zip |-> url, place |-> place, row |-> 2]>>
  ELSE <<[zip |-> url, place |-> place, row |-> 1]>>

\* r.raise_for_status() raises HTTPStatusError
is_error(status_code) == status_code # 200

\* the except clause re-raises whatever the status and the flag
reraises_always(status_code, allowed) == TRUE

\* the except clause: if r.status_code != 404 or not allow_404: raise
reraises(status_code, allowed) == status_code # 404 \/ ~ allowed

InitDaily ==
  /\ ExtractionIdle
  /\ order = allowed_taxonomies
  /\ ZipIdle
  /\ IdleBut({"daily"})
  /\ daily_zip_urls \in SeqsUpTo(DailyZipPool, MaxZips)
  /\ allow_404 \in BOOLEAN
  /\ answered = << >>
  /\ daily_pos = 0
  /\ daily_row = 0
  /\ daily_yielded = << >>
  /\ daily_pc = "request"

\* client.stream('GET', zip_url) and r.raise_for_status(): the body is
\* drained and the loop continues, or the error is raised, or the rows of
\* the zip file are about to be yielded
RequestZip ==
  /\ daily_pc = "request"
  /\ daily_pos < Len(daily_zip_urls)
  /\ \E status_code \in StatusPool :
       /\ answered' = Append(answered, status_code)
       /\ IF is_error(status_code)
          THEN IF reraises(status_code, allow_404)
               THEN daily_pc' = "raised" /\ UNCHANGED daily_pos
               ELSE daily_pos' = daily_pos + 1 /\ UNCHANGED daily_pc
          ELSE daily_pc' = "rows" /\ UNCHANGED daily_pos
  /\ UNCHANGED <<daily_zip_urls, allow_404, daily_row, daily_yielded, not_daily_vars>>

\* yield from rows: the next row of the zip file at hand
YieldFromRows ==
  /\ daily_pc = "rows"
  /\ daily_row < Len(RowsOfZip(daily_zip_urls[daily_pos + 1], daily_pos + 1))
  /\ daily_row' = daily_row + 1
  /\ daily_yielded' = Append(daily_yielded,
                              RowsOfZip(daily_zip_urls[daily_pos + 1], daily_pos + 1)[daily_row + 1])
  /\ UNCHANGED <<daily_zip_urls, allow_404, answered, daily_pos, daily_pc, not_daily_vars>>

\* the rows of the zip file at hand are exhausted: on to the next zip_url
RowsExhausted ==
  /\ daily_pc = "rows"
  /\ daily_row = Len(RowsOfZip(daily_zip_urls[daily_pos + 1], daily_pos + 1))
  /\ daily_row' = 0
  /\ daily_pos' = daily_pos + 1
  /\ daily_pc' = "request"
  /\ UNCHANGED <<daily_zip_urls, allow_404, answered, daily_yielded, not_daily_vars>>

\* the loop over zip_urls ends
DailyExhausted ==
  /\ daily_pc = "request"
  /\ daily_pos = Len(daily_zip_urls)
  /\ daily_pc' = "exhausted"
  /\ UNCHANGED <<daily_zip_urls, allow_404, answered, daily_pos, daily_row, daily_yielded,
                 not_daily_vars>>

NextDaily ==
  \/ RequestZip
  \/ YieldFromRows
  \/ RowsExhausted
  \/ DailyExhausted

SpecDaily == InitDaily /\ [][NextDaily]_vars

(***************************************************************************)
(* stream_read_xbrl_sync_s3_csv: one CSV object per final date later than  *)
(* the latest date among the keys under the prefix                         *)
(***************************************************************************)
RECURSIVE rstrip_slashes(_)
rstrip_slashes(t) ==
  IF Len(t) > 1 /\ t[Len(t)] = "/" THEN rstrip_slashes(SubSeq(t, 1, Len(t) - 1)) ELSE t

\* PurePosixPath(key).stem: the last component without its last suffix
stem(key) ==
  LET name == basename(rstrip_slashes(key))
      dots == {i \in 1..Len(name) : name[i] = "."}
      last == CHOOSE i \in dots : \A j \in dots : j <= i
  IN  IF dots = {} THEN name
      ELSE IF last = 1 \/ last = Len(name) THEN name
      ELSE SubSeq(name, 1, last - 1)

DigitChars == <<"0", "1", "2", "3", "4", "5", "6", "7", "8", "9">>

\* the decimal numeral of n, zero-padded to width digits
RECURSIVE zfill(_, _)
zfill(n, width) ==
  IF width = 0 THEN << >>
  ELSE zfill(n \div 10, width - 1) \o <<DigitChars[(n % 10) + 1]>>

\* str(date): date.isoformat()
isoformat(day) ==
  zfill(day.date[1], 4) \o <<"-">> \o zfill(day.date[2], 2) \o <<"-">> \o zfill(day.date[3], 2)

\* key = f'{key_prefix}{final_date}.csv'
KeyOf(prefix, final_date) == prefix \o isoformat(final_date) \o <<".", "c", "s", "v">>

\* the keys list_objects_v2 returns for Prefix=key_prefix
Contents(objects, prefix) == {o.Key : o \in {x \in objects : startswith(x.Key, prefix)}}

MINYEAR == 1

\* min(dates, default=...)
earliest_date(days) ==
  IF days = {} THEN date(MINYEAR, 1, 1)
  ELSE CHOOSE d \in days : \A e \in days : ~ DateLess(e.date, d.date)

\* max(dates, default=datetime.date(datetime.MINYEAR, 1, 1))
max_date(days) ==
  IF days = {} THEN date(MINYEAR, 1, 1)
  ELSE CHOOSE d \in days : \A e \in days : ~ DateLess(d.date, e.date)

\* latest_completed_date, or the ValueError of a key that is not a date
latest_completed_date(keys) ==
  IF \E k \in keys : IsRaise(fromisoformat(stem(k))) THEN Raise("ValueError")
  ELSE Ok(max_date({fromisoformat(stem(k)) : k \in keys}))

MaxKeys == 2

\* the body of the objects the bucket holds at the start
ShouldNotBeOverwritten ==
  <<"s", "h", "o", "u", "l", "d", "-", "n", "o", "t", "-", "b", "e", "-", "o", "v", "e",
    "r", "w", "r", "i", "t", "t", "e", "n">>

KeyPrefixPool == { <<"p", "/">>, <<"p">> }

\* keys a bucket may hold under the prefix, and one outside it
KeyPool(prefix) ==
  { prefix \o <<"2", "0", "2", "1", "-", "0", "5", "-", "0", "2", ".", "c", "s", "v">>,
    prefix \o <<"2", "0", "2", "2", "-", "0", "2", "-", "0", "8", ".", "c", "s", "v">>,
    prefix \o <<"r", "e", "a", "d", "m", "e", ".", "t", "x", "t">>,
    <<"o", "t", "h", "e", "r", "/", "2", "0", "2", "2", "-", "0", "2", "-", "0", "8", ".", "c", "s", "v">> }

InitS3 ==
  /\ ExtractionIdle
  /\ order = allowed_taxonomies
  /\ ZipIdle
  /\ IdleBut({"sync", "s3"})
  /\ hrefs \in SeqsUpTo(HrefPool, MaxLinks)
  /\ ingest_data_after_date = None
  /\ to_ingest = << >>
  /\ sync_pos = 0
  /\ sync_yielded = << >>
  /\ sync_pc = "idle"
  /\ sync_error = None
  /\ key_prefix \in KeyPrefixPool
  /\ \E keys \in {ks \in SUBSET KeyPool(key_prefix) : Cardinality(ks) <= MaxKeys} :
       existing = {[Key |-> k, Body |-> ShouldNotBeOverwritten] : k \in keys}
  /\ bucket = existing
  /\ uploaded = << >>
  /\ s3_pc = "list"
  /\ s3_error = None
  /\ attempt = 1

\* the keys under the prefix are listed and stream_read_xbrl_sync is entered
\* with the latest date among them
ListObjects ==
  /\ s3_pc = "list"
  /\ IF IsRaise(latest_completed_date(Contents(bucket, key_prefix)))
     THEN /\ s3_pc' = "raised"
          /\ s3_error' = latest_completed_date(Contents(bucket, key_prefix))
          /\ UNCHANGED <<ingest_data_after_date, sync_pc>>
     ELSE /\ s3_pc' = "syncing"
          /\ ingest_data_after_date' = latest_completed_date(Contents(bucket, key_prefix)).ok
          /\ sync_pc' = "start"
          /\ UNCHANGED s3_error
  /\ UNCHANGED <<hrefs, to_ingest, sync_pos, sync_yielded, sync_error,
                 key_prefix, existing, bucket, uploaded, attempt, not_sync_s3_vars>>

\* every pair yielded so far has been uploaded
LoopAsksForNext == Len(uploaded) = Len(sync_yielded)

\* for (final_date, rows) in final_date_and_rows: the next pair
NextFinalDate == LoopAsksForNext /\ YieldFinalDateAndRows

\* s3_client.upload_fileobj(Bucket=bucket_name, Key=key, Fileobj=csv_file); the
\* body, the CSV of the rows of a zip file, is named after the zip file
UploadFileobj ==
  /\ s3_pc = "syncing"
  /\ Len(uploaded) < Len(sync_yielded)
  /\ LET pair == sync_yielded[Len(uploaded) + 1]
         key == KeyOf(key_prefix, pair.final_date)
     IN  /\ bucket' = {o \in bucket : o.Key # key}
                        \cup {[Key |-> key, Body |-> pair.zip_url]}
         /\ uploaded' = Append(uploaded, key)
  /\ UNCHANGED <<key_prefix, existing, s3_pc, s3_error, attempt, not_s3_vars>>

\* the loop over final_date_and_rows ends
LoopEnds == LoopAsksForNext /\ SyncExhausted

NextS3 ==
  \/ ListObjects
  \/ SelectZips
  \/ NextFinalDate
  \/ UploadFileobj
  \/ LoopEnds

SpecS3 == InitS3 /\ [][NextS3]_vars

(***************************************************************************)
(* _convert_to_csv and _to_file_like_obj: the CSV of the columns and the   *)
(* rows, one chunk a line, read through a file-like object                 *)
(***************************************************************************)
\* value.encode("utf-8"), a byte of the ASCII range standing for itself
RECURSIVE encode(_)
encode(text) ==
  IF text = << >> THEN << >>
  ELSE (IF Head(text) = "é" THEN <<"C3", "A9">> ELSE <<Head(text)>>) \o encode(Tail(text))

\* the field with every quote character doubled
RECURSIVE doublequote(_)
doublequote(text) ==
  IF text = << >> THEN << >>
  ELSE (IF Head(text) = "\"" THEN <<"\"", "\"">> ELSE <<Head(text)>>) \o doublequote(Tail(text))

\* str(n) of an integer
RECURSIVE NatStr(_)
NatStr(n) == IF n < 10 THEN <<DigitChars[n + 1]>> ELSE NatStr(n \div 10) \o <<DigitChars[(n % 10) + 1]>>

\* a field as csv.writer writes it under QUOTE_NONNUMERIC: a number as it
\* prints, anything else between quotes, None as the empty string
Field(v) ==
  IF v = None THEN <<"\"", "\"">>
  ELSE IF "dec" \in DOMAIN v THEN (IF v.dec < 0 THEN <<"-">> \o NatStr(-v.dec) ELSE NatStr(v.dec))
  ELSE IF "bool" \in DOMAIN v
  THEN (IF v.bool THEN <<"T", "r", "u", "e">> ELSE <<"F", "a", "l", "s", "e">>)
  ELSE IF "date" \in DOMAIN v THEN <<"\"">> \o isoformat(v) \o <<"\"">>
  ELSE <<"\"">> \o doublequote(v.str) \o <<"\"">>

RECURSIVE JoinFields(_)
JoinFields(fields) ==
  IF fields = << >> THEN << >>
  ELSE IF Len(fields) = 1 THEN Field(fields[1])
  ELSE Field(fields[1]) \o <<",">> \o JoinFields(Tail(fields))

\* csv_writer.writerow(row): what pseudo_buffer.write returns for the line
writerow(fields) == encode(JoinFields(fields) \o <<"\r", "\n">>)

\* the n-th chunk _convert_to_csv yields
ChunkAt(columns, rows, n) == IF n = 1 THEN writerow(columns) ELSE writerow(rows[n - 1])

Min(a, b) == IF a <= b THEN a ELSE b

\* read(size): float('inf') if size is None or size < 0 else size
unlimited(size) == size < 0

\* to_yield without the limit of size
to_yield_all_left(size, left) == left

\* to_yield = min(size, len(chunk) - offset)
to_yield(size, left) == IF unlimited(size) THEN left ELSE Min(size, left)

\* b''.join(up_to_iter(size)): the bytes, and chunk, offset and the place in
\* the iterable as the loop leaves them
RECURSIVE up_to_iter(_, _, _, _, _, _)
up_to_iter(size, columns, rows, c, off, n) ==
  IF size = 0 \/ (off = Len(c) /\ n = Len(rows) + 1)
  THEN [got |-> << >>, chunk |-> c, offset |-> off, produced |-> n]
  ELSE LET fetch == off = Len(c)
           c2 == IF fetch THEN ChunkAt(columns, rows, n + 1) ELSE c
           off2 == IF fetch THEN 0 ELSE off
           n2 == IF fetch THEN n + 1 ELSE n
           k == to_yield(size, Len(c2) - off2)
           rest == up_to_iter(IF unlimited(size) THEN size ELSE size - k,
                              columns, rows, c2, off2 + k, n2)
       IN  [rest EXCEPT !.got = SubSeq(c2, (off2 + k) - k + 1, off2 + k) \o rest.got]

MaxRows == 2

ColumnsPool == { <<[str |-> <<"a">>], [str |-> <<"b">>]>> }

RowPool ==
  { <<[str |-> <<"1">>], [str |-> <<"2">>]>>,
    <<[str |-> <<"3">>], [str |-> <<"4">>]>>,
    <<[str |-> <<"é", "\"">>], None>>,
    <<[dec |-> -12], [date |-> <<2021, 5, 2>>]>>,
    <<[bool |-> TRUE], [str |-> <<",">>]>> }

\* the sizes read is called with; -1 is the default, and None reads the same
SizePool == {-1, 0, 1, 2, 7}

InitRead ==
  /\ ExtractionIdle
  /\ order = allowed_taxonomies
  /\ ZipIdle
  /\ IdleBut({"read"})
  /\ csv_columns \in ColumnsPool
  /\ csv_rows \in SeqsUpTo(RowPool, MaxRows)
  /\ produced = 0
  /\ chunk = << >>
  /\ offset = 0
  /\ body_read = << >>
  /\ last_read = None

\* FileLikeObj.read(size)
Read ==
  /\ \E size \in SizePool :
       \E out \in {up_to_iter(size, csv_columns, csv_rows, chunk, offset, produced)} :
         /\ chunk' = out.chunk
         /\ offset' = out.offset
         /\ produced' = out.produced
         /\ body_read' = body_read \o out.got
         /\ last_read' = [size |-> size, got |-> out.got]
  /\ UNCHANGED <<csv_columns, csv_rows, not_read_vars>>

NextRead ==
  \/ Read

SpecRead == InitRead /\ [][NextRead]_vars

(***************************************************************************)
(* _parse on its own: one text under one parser                            *)
(***************************************************************************)
ParserPool ==
  {"_parse_str", "_parse_decimal", "_parse_decimal_with_colon", "_parse_date", "_parse_bool",
   "_parse_reversed_bool"}

\* element.text of the elements parsed: none or blank, '-', numerals, labels
\* ending in ': ' before a numeral or '-', on one line and on two, and words
TextPool ==
  { << >>,
    <<" ">>,
    <<"-">>,
    <<" ", "-", " ", "\n">>,
    <<"5">>,
    <<"1", ",", "0", "0", "0">>,
    <<"n", ":", " ", "5">>,
    <<"n", ":", " ", "-">>,
    <<"a", ":", " ", "b", ":", " ", "7">>,
    <<"a", ":", " ", "b", ":", " ", "-">>,
    <<"o", "f", "\n", "n", ":", " ", "5">>,
    <<"o", "f", "\n", "n", ":", " ", "-">>,
    <<"a", "b", "c">>,
    <<"t", "r", "u", "e">>,
    <<"f", "a", "l", "s", "e">>,
    <<"2", "0", "2", "1", "-", "0", "5", "-", "0", "2">> }

InitParse ==
  /\ ExtractionIdle
  /\ order = allowed_taxonomies
  /\ ZipIdle
  /\ IdleBut({"parse"})
  /\ \E text \in TextPool : \E sign \in {"", "-"} :
       parse_element = E("nonFraction", "", << >>, text, sign, 0, << >>)
  /\ parse_parser \in ParserPool
  /\ parsed = None
  /\ parse_pc = "call"

\* value = _parse(element, element.text, parse)
CallParse ==
  /\ parse_pc = "call"
  /\ parsed' = [returned |-> _parse(parse_element, parse_element.text, parse_parser)]
  /\ parse_pc' = "returned"
  /\ UNCHANGED <<parse_element, parse_parser, not_parse_vars>>

NextParse ==
  \/ CallParse

SpecParse == InitParse /\ [][NextParse]_vars

(***************************************************************************)
(* _xbrl_to_rows on filings that state creditors: facts tagged by name     *)
(* attribute or by tag, in contexts due within and after one year          *)
(***************************************************************************)
MaxFacts == 2

DueWithin == <<"c1", "WithinOneYear">>

DueAfter == <<"c1", "AfterOneYear">>

FactContexts ==
  <<Context(<<"c1">>, Instant2021), Context(DueWithin, Instant2021), Context(DueAfter, Instant2021)>>

FactPool ==
  { E("nonFraction", "Creditors", DueWithin, <<"5">>, "", 0, << >>),
    E("nonFraction", "Creditors", DueAfter, <<"6">>, "", 0, << >>),
    E("nonFraction", "Creditors", <<"c1">>, <<"7">>, "", 0, << >>),
    E("Creditors", "", DueAfter, <<"8">>, "", 0, << >>),
    E("Creditors", "", DueWithin, <<"9">>, "", 0, << >>),
    E("nonFraction", "CreditorsDueAfterOneYear", <<"c1">>, <<"1">>, "", 0, << >>),
    E("nonFraction", "CreditorsDueWithinOneYear", <<"c1">>, <<"2">>, "", 0, << >>),
    E("nonFraction", "Debtors", DueAfter, <<"3">>, "", 0, << >>) }

InitFacts ==
  /\ ExtractionIdle
  /\ order = allowed_taxonomies
  /\ ZipIdle
  /\ IdleBut({"facts"})
  /\ \E elements \in SeqsUpTo(FactPool, MaxFacts) :
       stated = Filing(GoodName, FactContexts, {}, elements)
  /\ extracted = None

\* _xbrl_to_rows((name, xbrl_xml_str))
ExtractFacts ==
  /\ extracted = None
  /\ extracted' = [rows |-> _xbrl_to_rows(stated, order)]
  /\ UNCHANGED <<stated, not_facts_vars>>

NextFacts ==
  \/ ExtractFacts

SpecFacts == InitFacts /\ [][NextFacts]_vars

(***************************************************************************)
(* stream_read_xbrl_sync_s3_csv run again: a run that starts on an empty   *)
(* bucket is interrupted, or fails on a download, and the function is      *)
(* called again with the same arguments against the same listing           *)
(***************************************************************************)
MaxRuns == 2

InitResume ==
  /\ InitS3
  /\ existing = {}

\* the process is stopped between two steps, or a download has raised, and
\* stream_read_xbrl_sync_s3_csv is called again: the bucket is as the run
\* left it
RunAgain ==
  /\ attempt < MaxRuns
  /\ sync_pc # "exhausted"
  /\ attempt' = attempt + 1
  /\ existing' = bucket
  /\ uploaded' = << >>
  /\ s3_pc' = "list"
  /\ s3_error' = None
  /\ ingest_data_after_date' = None
  /\ to_ingest' = << >>
  /\ sync_pos' = 0
  /\ sync_yielded' = << >>
  /\ sync_pc' = "idle"
  /\ sync_error' = None
  /\ UNCHANGED <<hrefs, key_prefix, bucket, not_sync_s3_vars>>

NextResume ==
  \/ ListObjects
  \/ SelectZips
  \/ NextFinalDate
  \/ UploadFileobj
  \/ LoopEnds
  \/ RunAgain

SpecResume == InitResume /\ [][NextResume]_vars

(***************************************************************************)
(* Properties                                                              *)
(***************************************************************************)
GeneralColumn(j) == GENERAL_XPATH_MAPPINGS[j].name

PeriodicColumn(j) == PERIODICAL_XPATH_MAPPINGS[j].name

\* every match of a candidate on an element of the document traversed:
\* where it is, its column and priority, and what its text parses to
AllHits ==
  { [at |-> ik[1],
     column |-> Chain(document[ik[1]])[ik[2]].name,
     contextRef |-> document[ik[1]].contextRef,
     priority |-> Chain(document[ik[1]])[ik[2]].priority,
     outcome |->
       LET e == document[ik[1]]
           c == Chain(e)[ik[2]]
           harvested == search(c.test, e, e.tag, e.name, e.contextRef)[1]
       IN  _parse(harvested, harvested.text, c.parse)] :
      ik \in { p \in (1..Len(document)) \X (1..(2 + Len(CUSTOM_TESTS))) :
                 /\ p[2] <= Len(Chain(document[p[1]]))
                 /\ search(Chain(document[p[1]])[p[2]].test, document[p[1]],
                           document[p[1]].tag, document[p[1]].name,
                           document[p[1]].contextRef) # << >> } }

Of(hits, col) == {h \in hits : h.column = col}

NonNull(hits) == {h \in hits : ~ IsRaise(h.outcome) /\ h.outcome # None}

\* the parsed period a contextRef resolves to
PeriodOf(context_ref) ==
  <<fromisoformat(context_dates[context_ref][1]), fromisoformat(context_dates[context_ref][2])>>

InPeriod(hits, period) ==
  {h \in hits : /\ h.contextRef # << >>
                /\ h.contextRef \in DOMAIN context_dates
                /\ PeriodOf(h.contextRef) = period}

\* v is null when nothing parsed to a value, and else the value of a match
\* of the least priority among those that did
ChosenByPriority(hits, v) ==
  IF NonNull(hits) = {} THEN v = None
  ELSE \E h \in NonNull(hits) :
         /\ h.outcome = v
         /\ \A g \in NonNull(hits) : h.priority <= g.priority

Returned == pc = "returned"

\* C1: in every row of an extracted document each general value, and each
\* periodic value of the row's period, is the value of a minimum-priority
\* match among the matches whose text parses to a value, and is null
\* exactly when there is no such match.
C1_MinimumPriorityWins ==
  Returned =>
    \A hits \in {AllHits} : \A r \in 1..Len(result.ok) :
      LET row == result.ok[r]
      IN  /\ \A j \in 1..Len(GENERAL_XPATH_MAPPINGS) :
               ChosenByPriority(Of(hits, GeneralColumn(j)), row[5 + j])
          /\ row[11] # None =>
               \A j \in 1..Len(PERIODICAL_XPATH_MAPPINGS) :
                 ChosenByPriority(InPeriod(Of(hits, PeriodicColumn(j)), <<row[11], row[12]>>),
                                  row[12 + j])

\* a returned document in which a later match of better priority replaced
\* the earlier value of a periodic column, beside a general value found
C1_Witness ==
  /\ Returned
  /\ NonNull(Of(AllHits, "company_dormant")) # {}
  /\ \E h, g \in NonNull(Of(AllHits, "tangible_fixed_assets")) :
       /\ h.priority < g.priority /\ g.at < h.at
       /\ h.contextRef = g.contextRef
       /\ \E r \in 1..Len(result.ok) : result.ok[r][12 + 1] = h.outcome

\* C2: a general slot is replaced only by a non-null value of strictly lower
\* priority, so a later match of the same priority leaves it alone.
C2_GeneralTiesDoNotOverwrite ==
  [][\A col \in GeneralNames :
       LET before == general_attributes_with_priorities[col]
           after == general_attributes_with_priorities'[col]
       IN  after # before => after.priority < before.priority /\ after.value # None]_vars

UnknownContextRef(e) == e.contextRef # << >> /\ e.contextRef \notin DOMAIN context_dates

\* C3: an element whose contextRef names no context is dropped; it never
\* makes the extraction fail.
C3_UnknownContextRefIsDropped ==
  (\E i \in 1..Len(document) : UnknownContextRef(document[i]))
    => ~ (pc = "raised" /\ result = Raise("KeyError"))

\* C4: handling an element without contextRef leaves every periodic slot and
\* the set of period buckets as they were, and a document none of whose
\* elements has a contextRef returns the single row without period.
C4_NoContextRefChangesNothing ==
  /\ [][(pc = "traverse" /\ ci > 0 /\ Current.contextRef = << >>)
          => periodic_attributes_with_priorities' = periodic_attributes_with_priorities]_vars
  /\ []((Returned /\ \A i \in 1..Len(document) : document[i].contextRef = << >>)
          => Len(result.ok) = 1 /\ result.ok[1][11] = None)

\* a returned document with a periodic fact (tag FixedAssets, text 9) that
\* has no contextRef, besides a fact that has one
C4_Witness ==
  /\ Returned
  /\ \E i \in 1..Len(document) :
       document[i].tag = "FixedAssets" /\ document[i].contextRef = << >>
  /\ Len(periodic_attributes_with_priorities) = 1

BadContext(c) ==
  \/ c.period = << >>
  \/ /\ c.period[1].instant = << >>
     /\ c.period[1].startDate = << >> \/ c.period[1].endDate = << >>
  \/ \E texts \in {c.period[1].instant, c.period[1].startDate, c.period[1].endDate} :
       texts # << >> /\ IsRaise(fromisoformat(strip(texts[1])))

\* C5: a context without usable dates does not make the extraction fail.
C5_ContextWithoutDatesIsDropped ==
  (\E i \in 1..Len(contexts) : BadContext(contexts[i]))
    => ~ (pc = "raised" /\ result \in {Raise("IndexError"), Raise("ValueError")})

\* C6: text the candidate's parser rejects counts as null; the extraction
\* does not fail on it.
C6_UnparsableValueIsNull ==
  ~ (pc = "raised" /\ result = Raise("InvalidOperation"))

\* C8: in every emitted row period_start and period_end are both null or
\* both non-null, and null only in the single row of a document without
\* period bucket.
C8_PeriodBoundsBothOrNeither ==
  Returned =>
    \A r \in 1..Len(result.ok) :
      /\ (result.ok[r][11] = None) <=> (result.ok[r][12] = None)
      /\ result.ok[r][11] = None
           => Len(result.ok) = 1 /\ periodic_attributes_with_priorities = << >>

\* a returned document of two periods
C8_Witness == Returned /\ Len(result.ok) = 2 /\ result.ok[2][12] # None

Ordinal(d) == d.date[1] * 10000 + d.date[2] * 100 + d.date[3]

\* C9: the rows of a filing are in descending order of
\* (period_start, period_end).
C9_RowsNewestFirst ==
  Returned =>
    \A r \in 1..(Len(result.ok) - 1) :
      LET a == result.ok[r]
          b == result.ok[r + 1]
      IN  \/ Ordinal(a[11]) > Ordinal(b[11])
          \/ Ordinal(a[11]) = Ordinal(b[11]) /\ Ordinal(a[12]) >= Ordinal(b[12])

\* a returned document whose older period was met first in the traversal
C9_Witness ==
  /\ Returned
  /\ Len(result.ok) = 2
  /\ fromisoformat(periodic_attributes_with_priorities[1].key[1]) = result.ok[2][11]
  /\ Ordinal(result.ok[1][11]) > Ordinal(result.ok[2][11])

\* the keys of the periods some periodic candidate harvested an element for
PeriodsFound ==
  { context_dates[h.contextRef] :
      h \in {g \in AllHits : /\ g.column \in PeriodicNames
                             /\ g.contextRef # << >>
                             /\ g.contextRef \in DOMAIN context_dates} }

\* C10: every row has 37 positions; a document without periodic fact gives
\* one row, the core and general values followed by 27 nulls; any other
\* gives one row per period key, none of them without period.
C10_RowsPerPeriod ==
  Returned => \A found \in {PeriodsFound} :
    /\ \A r \in 1..Len(result.ok) : Len(result.ok[r]) = 37
    /\ IF found = {}
       THEN /\ Len(result.ok) = 1
            /\ SubSeq(result.ok[1], 1, 5) = core
            /\ \A j \in 1..5 :
                 result.ok[1][5 + j] = general_attributes_with_priorities[GeneralColumn(j)].value
            /\ \A k \in 11..37 : result.ok[1][k] = None
       ELSE /\ Len(result.ok) = Cardinality(found)
            /\ \A key \in found :
                 \E r \in 1..Len(result.ok) :
                   /\ result.ok[r][11] = fromisoformat(key[1])
                   /\ result.ok[r][12] = fromisoformat(key[2])
            /\ \A r \in 1..Len(result.ok) : result.ok[r][11] # None

\* a returned document with a general value and no periodic fact
C10_Witness ==
  /\ Returned
  /\ PeriodsFound = {}
  /\ result.ok[1][9] # None

RECURSIVE RowsOfAll(_)
RowsOfAll(outcomes) ==
  IF outcomes = << >> THEN << >>
  ELSE (IF IsRaise(Head(outcomes)) THEN << >> ELSE Head(outcomes).ok)
       \o RowsOfAll(Tail(outcomes))

\* C7: when the generator of stream_read_xbrl_zip ends, it has yielded the
\* rows of every member that can be extracted, whatever the other members.
C7_BadFilingDoesNotEndThePipeline ==
  zip_pc \in {"exhausted", "raised"}
    => yielded = RowsOfAll([i \in 1..Len(archive) |-> _xbrl_to_rows(archive[i], order)])

\* C11: calls of _xbrl_to_rows on the same (name, bytes) return the same
\* rows, the taxonomy string included.
C11_ExtractIsDeterministic ==
  \A i, j \in 1..Len(runs) : runs[i].rows = runs[j].rows

\* the pattern with its end anchored: the match reaches the end of the name
MatchesWholeName(fn) ==
  /\ match(fn) # None
  /\ Len(match(fn).run_code) + 1 + Len(match(fn).company_id) + 1 + 8
       + Len(match(fn).filetype) = Len(fn)

\* C19: a member whose basename has characters after the html or xml
\* extension is not accepted; no rows are produced for it.
C19_TrailingCharactersRejected ==
  \A i \in 1..Len(runs) :
    ~ IsRaise(runs[i].rows) => MatchesWholeName(basename(given.name))

AfterJunk == SubSeq(raw, Len(junk) + 1, Len(raw))

\* C13: when the document begins with '<' and the prefix before it holds no
\* '<', the parser is fed the document itself, which is also what it is fed
\* when the document comes without the prefix; the rows are made of what the
\* parser is fed, so they are the same.
C13_PrefixBeforeDocumentIsIgnored ==
  (/\ fed # None
   /\ \A i \in 1..Len(junk) : junk[i] # "<"
   /\ AfterJunk # << >>
   /\ AfterJunk[1] = "<")
    => fed.bytes = AfterJunk /\ remove_bom(AfterJunk) = fed.bytes

\* a byte of a byte order mark before a document has been cut off
C13_Witness ==
  /\ fed # None
  /\ junk = <<"EF">>
  /\ raw = <<"EF", "<", "a">>
  /\ fed.bytes = <<"<", "a">>

\* the rows of a member; none when it cannot be extracted
RowsOfMember(i) == RowsOfAll(<<_xbrl_to_rows(archive[i], order)>>)

\* the first n of them
FirstRows(i, n) ==
  [k \in 1..(IF n < Len(RowsOfMember(i)) THEN n ELSE Len(RowsOfMember(i))) |-> RowsOfMember(i)[k]]

\* C14: what has been yielded is all the rows of the members before the one
\* in hand, in member order, each member's rows in their own order and
\* together, followed by the first rows of the member in hand; the order the
\* workers finish in does not show.
C14_RowsInMemberOrder ==
  IF consumed = 0 THEN yielded = << >>
  ELSE yielded = RowsOfAll([i \in 1..(consumed - 1) |-> _xbrl_to_rows(archive[i], order)])
                   \o FirstRows(consumed, row_pos)

\* the worker of the second member finished before that of the first, and
\* the rows of both have been yielded
C14_Witness ==
  /\ zip_pc = "exhausted"
  /\ finished = <<2, 1>>
  /\ archive[1] # archive[2]
  /\ Len(RowsOfMember(1)) = 2
  /\ yielded = RowsOfMember(1) \o RowsOfMember(2)

\* C15: the zip files stream_read_xbrl_sync(D) yields are selected zip files
\* that end after D, never one that ends on D or before; and when the
\* iteration has come to its end they are all the selected files that end
\* after D, oldest first.
C15_YieldsFilesEndingAfterTheDate ==
  /\ \A i \in 1..Len(sync_yielded) :
       /\ DateLess(ingest_data_after_date.date, sync_yielded[i].final_date.date)
       /\ \E k \in 1..Len(Selected(hrefs).ok) :
            /\ Selected(hrefs).ok[k].zip_url = sync_yielded[i].zip_url
            /\ Selected(hrefs).ok[k].dates[2] = sync_yielded[i].final_date
  /\ sync_pc = "exhausted" =>
       LET After(pair) == DateLess(ingest_data_after_date.date, pair.dates[2].date)
           due == SelectSeq(Selected(hrefs).ok, After)
       IN  sync_yielded = [i \in 1..Len(due) |->
                             [final_date |-> due[i].dates[2], zip_url |-> due[i].zip_url]]

\* two daily files are listed, the date given is the day of the older one,
\* and the newer one alone has been yielded
C15_Witness ==
  /\ sync_pc = "exhausted"
  /\ Len(Selected(hrefs).ok) = 2
  /\ ingest_data_after_date = Selected(hrefs).ok[1].dates[2]
  /\ Len(sync_yielded) = 1
  /\ sync_yielded[1].final_date = date(2022, 2, 8)

\* the rows of the zip files among the first n listed that were answered 200
RECURSIVE RowsOfFound(_)
RowsOfFound(n) ==
  IF n = 0 THEN << >>
  ELSE RowsOfFound(n - 1)
       \o (IF n <= Len(answered) /\ answered[n] = 200
           THEN RowsOfZip(daily_zip_urls[n], n) ELSE << >>)

\* C18: with allow_404 a zip URL answered 404 is passed over and the rows of
\* the others are yielded in listing order; any other error status, or a
\* 404 without allow_404, raises at that URL and nothing is yielded after it.
C18_NotFoundSkippedOtherErrorsRaise ==
  /\ \A n \in 1..Len(answered) :
       (answered[n] = 404 /\ allow_404) => (daily_pc = "raised" => n < Len(answered))
  /\ \A n \in 1..Len(answered) :
       (answered[n] # 200 /\ ~ (answered[n] = 404 /\ allow_404))
         => (daily_pc = "raised" /\ n = Len(answered))
  /\ daily_pc = "raised" => daily_yielded = RowsOfFound(Len(answered) - 1)
  /\ daily_pc = "exhausted" =>
       /\ Len(answered) = Len(daily_zip_urls)
       /\ daily_yielded = RowsOfFound(Len(daily_zip_urls))

\* three files are listed, the second is not found, and the rows of the
\* first and of the third have been yielded
C18_Witness ==
  /\ daily_pc = "exhausted"
  /\ allow_404
  /\ answered = <<200, 404, 200>>
  /\ daily_yielded = RowsOfZip(daily_zip_urls[1], 1) \o RowsOfZip(daily_zip_urls[3], 3)
  /\ daily_yielded # << >>

\* C16: the objects the bucket held when the run started are never written:
\* every upload is for a final date later than the date of every key listed
\* under the prefix, so no uploaded key is one of theirs; and from an empty
\* bucket a completed run has uploaded one object per selected final date.
C16_ExistingObjectsLeftAlone ==
  /\ \A o \in existing : o \in bucket
  /\ \A i \in 1..Len(uploaded) :
       /\ uploaded[i] \notin {o.Key : o \in existing}
       /\ i <= Len(sync_yielded)
       /\ \A k \in Contents(existing, key_prefix) :
            IF IsRaise(fromisoformat(stem(k))) THEN FALSE
            ELSE i <= Len(sync_yielded)
                 => DateLess(fromisoformat(stem(k)).date, sync_yielded[i].final_date.date)
  /\ (existing = {} /\ sync_pc = "exhausted") =>
       /\ Len(uploaded) = Len(Selected(hrefs).ok)
       /\ \A i \in 1..Len(uploaded) :
            uploaded[i] = KeyOf(key_prefix, Selected(hrefs).ok[i].dates[2])
       /\ Cardinality(bucket) = Len(uploaded)

\* the bucket held the object of the older of two daily files; the run has
\* uploaded the newer one alone and the older object is as it was
C16_Witness ==
  /\ sync_pc = "exhausted"
  /\ Len(Selected(hrefs).ok) = 2
  /\ existing = {[Key |-> KeyOf(key_prefix, date(2021, 5, 2)),
                   Body |-> ShouldNotBeOverwritten]}
  /\ uploaded = <<KeyOf(key_prefix, date(2022, 2, 8))>>
  /\ Cardinality(bucket) = 2

\* the header line and the line of every row, in order
RECURSIVE CsvBody(_, _)
CsvBody(columns, rows) ==
  IF rows = << >> THEN writerow(columns)
  ELSE CsvBody(columns, SubSeq(rows, 1, Len(rows) - 1)) \o writerow(rows[Len(rows)])

\* the bytes no call of read has returned yet
RECURSIVE NotYetRead(_)
NotYetRead(n) ==
  IF n > Len(csv_rows) + 1 THEN << >>
  ELSE ChunkAt(csv_columns, csv_rows, n) \o NotYetRead(n + 1)

\* C17: whatever sizes read is called with, the bytes returned so far
\* followed by the bytes still to come are the header line and the rows'
\* lines in order; a call returns at most size bytes, and fewer than asked
\* (or an end to an unlimited read) only with the whole body returned.
C17_ReadsReturnTheCsvBody ==
  /\ body_read \o SubSeq(chunk, offset + 1, Len(chunk)) \o NotYetRead(produced + 1)
       = CsvBody(csv_columns, csv_rows)
  /\ last_read # None =>
       /\ last_read.size >= 0 => Len(last_read.got) <= last_read.size
       /\ (last_read.size < 0 \/ Len(last_read.got) < last_read.size)
            => body_read = CsvBody(csv_columns, csv_rows)

\* the body of the test, read to its end in pieces of which the last asked
\* for seven bytes and got fewer
C17_Witness ==
  /\ last_read # None
  /\ body_read = <<"\"", "a", "\"", ",", "\"", "b", "\"", "\r", "\n",
                   "\"", "1", "\"", ",", "\"", "2", "\"", "\r", "\n",
                   "\"", "3", "\"", ",", "\"", "4", "\"", "\r", "\n">>
  /\ last_read.size = 7
  /\ Len(last_read.got) \in 1..6

\* v is the value of the first match in document order among the matches
\* of the least priority whose text parses to a value
FirstOfTheBest(hits, v) ==
  \E h \in NonNull(hits) :
    /\ h.outcome = v
    /\ \A g \in NonNull(hits) :
         h.priority < g.priority \/ (h.priority = g.priority /\ h.at <= g.at)

\* C20: a call of handle_periodic changes a slot of a period only to a
\* non-null value of strictly lower priority than the slot had (a new
\* period's slots starting from the default); and in the rows returned a
\* periodic value is that of the first match in document order among the
\* matches of the least priority that parse to a value.
C20_PeriodicSlotWrittenOnlyByBetter ==
  /\ [][\A i \in 1..Len(periodic_attributes_with_priorities') : \A col \in PeriodicNames :
          LET after == periodic_attributes_with_priorities'[i].attrs[col]
              before == IF i <= Len(periodic_attributes_with_priorities)
                        THEN periodic_attributes_with_priorities[i].attrs[col]
                        ELSE InitialPeriodic[col]
          IN  after # before => after.priority < before.priority /\ after.value # None]_vars
  /\ [](Returned =>
          \A hits \in {AllHits} : \A r \in 1..Len(result.ok) :
            result.ok[r][11] # None =>
              \A j \in 1..Len(PERIODICAL_XPATH_MAPPINGS) :
                LET mine == InPeriod(Of(hits, PeriodicColumn(j)),
                                     <<result.ok[r][11], result.ok[r][12]>>)
                IN  NonNull(mine) # {} => FirstOfTheBest(mine, result.ok[r][12 + j]))

\* a returned document in which two elements of one period matched
\* candidates of one priority for one column with different values, and the
\* row holds the value of the first
C20_Witness ==
  /\ Returned
  /\ \E j \in 1..Len(PERIODICAL_XPATH_MAPPINGS) :
       \E h, g \in NonNull(Of(AllHits, PeriodicColumn(j))) :
         /\ h.at < g.at
         /\ h.priority = g.priority
         /\ h.contextRef = g.contextRef
         /\ h.outcome # g.outcome
         /\ \A f \in NonNull(Of(AllHits, PeriodicColumn(j))) : h.priority <= f.priority
         /\ \E r \in 1..Len(result.ok) : result.ok[r][12 + j] = h.outcome

\* every slot of the two stores
AllSlots ==
  {general_attributes_with_priorities[col] : col \in GeneralNames}
    \cup UNION {{periodic_attributes_with_priorities[i].attrs[col] : col \in PeriodicNames} :
                  i \in 1..Len(periodic_attributes_with_priorities)}

\* C21: at every point of the traversal a slot of either store holds a value
\* exactly when its priority is below the sentinel, and a step that changes
\* a general slot leaves it with a value and a priority below the sentinel:
\* no written slot is at (10, None).
C21_ValueIffPriorityBelowSentinel ==
  /\ [](\A slot \in AllSlots : (slot.value # None) <=> (slot.priority < SENTINEL_MAX))
  /\ [][\A col \in GeneralNames :
          general_attributes_with_priorities'[col] # general_attributes_with_priorities[col]
            => /\ general_attributes_with_priorities'[col].value # None
               /\ general_attributes_with_priorities'[col].priority < SENTINEL_MAX]_vars

\* in the middle of a traversal a general slot and a periodic slot have been
\* written while other slots of theirs are as they started
C21_Witness ==
  /\ pc = "traverse"
  /\ \E col \in GeneralNames : general_attributes_with_priorities[col].priority < SENTINEL_MAX
  /\ \E col \in GeneralNames : general_attributes_with_priorities[col] = Slot(SENTINEL_MAX, None)
  /\ \E i \in 1..Len(periodic_attributes_with_priorities) : \E col, other \in PeriodicNames :
       /\ periodic_attributes_with_priorities[i].attrs[col].value # None
       /\ periodic_attributes_with_priorities[i].attrs[other] = Slot(SENTINEL_MAX, None)

\* the text after the rightmost ': ' of the whole text
AfterLastColon(text) ==
  LET ends == {i \in 1..(Len(text) - 1) : text[i] = ":" /\ text[i + 1] = " "}
  IN  IF ends = {} THEN text
      ELSE SubSeq(text, (CHOOSE i \in ends : \A j \in ends : j <= i) + 2, Len(text))

\* null, blank after trimming, or '-' after trimming
Gated(text) == text = << >> \/ strip(text) = << >> \/ strip(text) = <<"-">>

\* C22: text that is null, blank or '-' after trimming parses to null under
\* every parser, and under the colon-suffixed decimal parser so does text
\* whose remainder after the last ': ' is blank or '-'.
C22_GatedTextIsNull ==
  parse_pc = "returned" =>
    /\ Gated(parse_element.text) => parsed.returned = None
    /\ (/\ parse_parser = "_parse_decimal_with_colon"
        /\ ~ Gated(parse_element.text)
        /\ Gated(AfterLastColon(strip(parse_element.text))))
         => parsed.returned = None

\* the candidates of column that harvest an element from e
Harvesting(e, column) ==
  {k \in 1..Len(Chain(e)) :
     /\ Chain(e)[k].name = column
     /\ Chain(e)[k].test.search # "element"
     /\ search(Chain(e)[k].test, e, e.tag, e.name, e.contextRef) # << >>}

\* C23: the custom candidate of creditors_due_after_one_year harvests an
\* element exactly when the suffix of its name attribute is Creditors and
\* its contextRef contains AfterOneYear, as the candidate of
\* creditors_due_within_one_year does with WithinOneYear.
C23_CreditorsCandidatesSymmetric ==
  extracted # None =>
    \A i \in 1..Len(stated.elements) : \A e \in {stated.elements[i]} :
      /\ Harvesting(e, "creditors_due_after_one_year") # {}
           <=> (e.name = "Creditors" /\ Contains(e.contextRef, "AfterOneYear"))
      /\ Harvesting(e, "creditors_due_within_one_year") # {}
           <=> (e.name = "Creditors" /\ Contains(e.contextRef, "WithinOneYear"))

\* C24: the candidate that takes the first span of an element changes
\* entity_current_legal_name only when the element is named
\* EntityCurrentLegalOrRegisteredName; the span of any other element leaves
\* the slot as it was.
C24_SpanOnlyUnderLegalNameElement ==
  [][(/\ pc = "traverse"
      /\ ci > 0
      /\ Candidate.test.search = "first_span"
      /\ Current.name # "EntityCurrentLegalOrRegisteredName"
      /\ Current.tag # "EntityCurrentLegalOrRegisteredName")
       => general_attributes_with_priorities'["entity_current_legal_name"]
            = general_attributes_with_priorities["entity_current_legal_name"]]_vars

\* the periods of the rows returned
PeriodsEmitted ==
  {<<result.ok[r][11], result.ok[r][12]>> : r \in {q \in 1..Len(result.ok) : result.ok[q][11] # None}}

\* C25: the periods rows are returned for are exactly the periods of the
\* contexts that an element harvested by a periodic candidate refers to,
\* whatever the element's text parses to and whatever the candidate's
\* priority.
C25_RowsForEveryPeriodMatched ==
  Returned =>
    PeriodsEmitted
      = {<<fromisoformat(key[1]), fromisoformat(key[2])>> : key \in PeriodsFound \ {<< >>}}

\* a returned document with a row that has a period and a null in each of
\* its 25 periodic columns
C25_Witness ==
  /\ Returned
  /\ \E r \in 1..Len(result.ok) :
       /\ result.ok[r][11] # None
       /\ result.ok[r][12] # None
       /\ \A k \in 13..37 : result.ok[r][k] = None

\* the selected files, or none when the listing makes the selection raise
SelectedFiles == IF IsRaise(Selected(hrefs)) THEN << >> ELSE Selected(hrefs).ok

\* C26: of two selected files the later in the order has the later start
\* date and the later end date; the final dates yielded are strictly
\* increasing, and no two of them give the same key under a prefix.
C26_FinalDatesStrictlyIncreasing ==
  /\ \A files \in {SelectedFiles} : \A k, l \in 1..Len(files) :
       k < l => /\ DateLess(files[k].dates[1].date, files[l].dates[1].date)
                /\ DateLess(files[k].dates[2].date, files[l].dates[2].date)
  /\ \A i, j \in 1..Len(sync_yielded) :
       i < j => /\ DateLess(sync_yielded[i].final_date.date, sync_yielded[j].final_date.date)
                /\ \A prefix \in KeyPrefixPool :
                     KeyOf(prefix, sync_yielded[i].final_date)
                       # KeyOf(prefix, sync_yielded[j].final_date)

\* a year's file and a later month's file have been yielded, the listing
\* naming the month before the year
C26_Witness ==
  /\ sync_pc = "exhausted"
  /\ Len(sync_yielded) = 2
  /\ sync_yielded[1].final_date = date(2021, 12, 31)
  /\ sync_yielded[2].final_date = date(2022, 2, 28)
  /\ extract_start_end_dates(all_zip_urls(hrefs)[1]).ok[2] = date(2022, 2, 28)

\* the listed zip files with a parseable date range
Parseable ==
  IF IsRaise(all_zip_urls_with_dates(all_zip_urls(hrefs))) THEN << >>
  ELSE all_zip_urls_with_parseable_dates(all_zip_urls_with_dates(all_zip_urls(hrefs)).ok)

\* the days from the start to the end of a file's range
DaysOf(pair) ==
  {d \in (pair.dates[1].date[1]..pair.dates[2].date[1]) \X (1..12) \X (1..31) :
     /\ ValidDate(d[1], d[2], d[3])
     /\ ~ DateLess(d, pair.dates[1].date)
     /\ ~ DateLess(pair.dates[2].date, d)}

\* C27: every day in the range of a listed zip file with a parseable range
\* is in the range of a selected zip file, also when a range is listed more
\* than once: with no date given, every such day is in the range of a file
\* to ingest.
C27_OverlapResolutionKeepsCoverage ==
  (sync_pc = "iterating" /\ ingest_data_after_date = date(MINYEAR, 1, 1)) =>
    \A listed \in {Parseable} :
      \A i \in 1..Len(listed) : \A d \in DaysOf(listed[i]) :
        \E k \in 1..Len(to_ingest) : d \in DaysOf(to_ingest[k])

\* C28: a run that follows an interrupted one does not fail on the objects
\* the interrupted run stored, and once its loop has ended the bucket holds
\* an object under the key of the final date of every selected zip file.
C28_RunAgainCompletesTheBucket ==
  attempt > 1 =>
    /\ s3_pc # "raised"
    /\ sync_pc = "exhausted" =>
         \A files \in {SelectedFiles} : \A k \in 1..Len(files) :
           KeyOf(key_prefix, files[k].dates[2]) \in {o.Key : o \in bucket}

====
